---- MODULE Spec2Model ----
(***************************************************************************)
(* A model of the SIP log tools of TeamsLogAnalyzer.                       *)
(*                                                                         *)
(* SIPLogAnalyzer.parse_log_file (src/SIP2.py) scans a log file line by    *)
(* line, keeps one running dictionary current_session and appends one      *)
(* entry to self.log_entries for each line on which it detects a call end. *)
(*                                                                         *)
(* A log line is a sequence of lexemes (strings).  The regular expressions *)
(* and substring tests of the code are operators over such sequences: a    *)
(* pattern anchored at the start of the line inspects lexeme 1, a search   *)
(* takes the leftmost lexeme that matches, and a capture that runs to the  *)
(* end of the line returns the lexemes that follow.                        *)
(***************************************************************************)
EXTENDS Integers, Sequences, FiniteSets, TLC

VARIABLES
    log_entries,      \* self.log_entries: the entries appended so far
    current_session,  \* the dictionary current_session of parse_log_file
    files,            \* the files handed to parse_log_file so far, each the
                      \* sequence of its lines read so far (the last one is
                      \* the file being read while pc = "reading")
    pc,               \* "idle": no call in progress; "reading": inside the loop
    \* SIPLogAnalyzer.analyze_logs of src/SIP.py
    log_content,      \* log_content.split('\n'): the lines of the file
    line_no,          \* the number of lines the first loop has taken
    current_message,  \* the list current_message
    messages,         \* the list messages, each message the lines joined in it
    parsed_data,      \* the list parsed_data
    seg_pc,           \* "idle", "split", "parse" or "done"
    \* SIPCodeAnalyzer.process_file of src/TeasmLogsV2.py and src/TeasmLogsV3.py
    version,          \* the revision whose process_file runs: "V2" or "V3"
    data,             \* the input: whether the file exists, its columns, its rows
    row_no,           \* the number of rows data.iterrows() has yielded
    results,          \* the list results
    summaries,        \* the list summaries (TeasmLogsV3.py only)
    counters,         \* total_attempted_calls and the four calls counters
    stats,            \* the dictionary stats (TeasmLogsV3.py only), <<>> before
    written,          \* whether the output file was written
    outcome,          \* what process_file returned: <<success, message>>
    pf_pc,            \* "idle", "rows" or "done"
    \* SIPCodeAnalyzer.determine_call_status of src/TeasmLogsV3.py
    sip_code,         \* the argument sip_code
    call_status,      \* the status returned, "" before the call
    \* explain_sip of src/TeamsLog.py, src/TeasmLogsV2.py, src/TeasmLogsV3.py
    explained,        \* the calls made, each with what it returned
    tables            \* the tables the analyzer of each revision holds; <<>>
                      \* in the programs that have no such analyzer

sip2Vars == <<log_entries, current_session, files, pc>>

segVars ==
    <<log_content, line_no, current_message, messages, parsed_data, seg_pc>>

pfVars ==
    <<version, data, row_no, results, summaries, counters, stats, written,
      outcome, pf_pc>>

stVars == <<sip_code, call_status>>

exVars == <<explained, tables>>

vars == <<sip2Vars, segVars, pfVars, stVars, exVars>>

----------------------------------------------------------------------------
(* Bounds of the model *)

MaxLines == 3     \* lines read over all calls
MaxCalls == 2     \* calls of parse_log_file on the one analyzer

----------------------------------------------------------------------------
(* The lexemes of the log lines and what the patterns make of them *)

\* lexemes of the form \d{2}:\d{2}:\d{2}\.\d{3}
Timestamps == {"10:00:00.000", "10:00:01.000", "10:00:05.000"}

\* lexemes \[SID=([\w:]+)\] and their group 1
SidValue == ("[SID=S1]" :> "S1") @@ ("[SID=S2]" :> "S2")

\* lexemes that contain 'FROM:'; those of the form FROM: <(.+?)> and group 1
FromLabel == {"FROM: <a@x>", "FROM: <c@x>", "FROM: a@x"}
FromValue == ("FROM: <a@x>" :> "a@x") @@ ("FROM: <c@x>" :> "c@x")

\* lexemes that contain 'TO:'; those of the form TO: <(.+?)> and group 1
ToLabel == {"TO: <b@x>", "TO: <d@x>"}
ToValue == ("TO: <b@x>" :> "b@x") @@ ("TO: <d@x>" :> "d@x")

\* lexemes IPG_(\w+) and their group 1
IpGroupValue == ("IPG_Teams" :> "Teams")

\* lexemes \d{1,3}\.\d{1,3}\.\d{1,3}\.\d{1,3}
IpLexemes == {"10.0.0.1", "10.0.0.2"}

\* the lexeme 'Call End Reason: ' (it contains 'Call End')
ReasonLabel == "Call End Reason: "

\* the lines a log is made of
LineSet ==
    { <<"10:00:00.000", "INVITE", "FROM: <a@x>", "[SID=S1]">>,
      <<"10:00:01.000", "TO: <b@x>", "[SID=S1]">>,
      <<"10:00:05.000", "Call End", "[SID=S1]">>,
      <<"10:00:01.000", "Incoming SIP Message", "FROM: <c@x>", "TO: <d@x>",
        "[SID=S2]">>,
      <<"10:00:00.000", "FROM: <c@x>">>,
      <<"10:00:01.000", "FROM: <a@x>", "TO: <d@x>">>,
      <<"10:00:05.000", "Released", "Outgoing SIP Message",
        "Incoming SIP Message", "IPG_Teams", "10.0.0.1", "10.0.0.2">>,
      <<"10:00:05.000", "Outgoing SIP Message", "Call End Reason: ", "Busy",
        "[SID=S2]">>,
      <<"INFO", "10:00:05.000", "FROM: <c@x>", "Released">>,
      <<"10:00:01.000", "FROM: a@x", "Call End Reason: ">> }

----------------------------------------------------------------------------
(* Dictionaries *)

EmptySession == [k \in {} |-> ""]

\* d[k] = v
Put(d, k, v) == [x \in (DOMAIN d) \cup {k} |-> IF x = k THEN v ELSE d[x]]

\* d.get(k, default)
Get(d, k, default) == IF k \in DOMAIN d THEN d[k] ELSE default

\* the index of the leftmost lexeme of line that is in S, 0 when there is none
Leftmost(line, S) ==
    IF \E i \in 1..Len(line) : line[i] \in S
    THEN CHOOSE i \in 1..Len(line) :
            line[i] \in S /\ \A j \in 1..(i - 1) : line[j] \notin S
    ELSE 0

\* sub in line
Contains(line, S) == \E i \in 1..Len(line) : line[i] \in S

----------------------------------------------------------------------------
(* parse_log_file, one line *)

\* re.match(r'(\d{2}:\d{2}:\d{2}\.\d{3})', line): group 1, "" when no match
timestamp_match(line) ==
    IF Len(line) > 0 /\ line[1] \in Timestamps THEN line[1] ELSE ""

\* sid_match.group(1) if sid_match else ''
sid_match(line) ==
    LET i == Leftmost(line, DOMAIN SidValue)
    IN  IF i = 0 THEN "" ELSE SidValue[line[i]]

\* ip_matches = re.findall(...); ip_matches[1] if len(ip_matches) > 1 else ''
remote_ip(line) ==
    LET ip_matches == SelectSeq(line, LAMBDA t : t \in IpLexemes)
    IN  IF Len(ip_matches) > 1 THEN ip_matches[2] ELSE ""

\* ip_group_match.group(1) if ip_group_match else ''
ip_group(line) ==
    LET i == Leftmost(line, DOMAIN IpGroupValue)
    IN  IF i = 0 THEN "" ELSE IpGroupValue[line[i]]

\* direction of the line
direction(line) ==
    IF Contains(line, {"Incoming SIP Message"}) THEN "Incoming"
    ELSE IF Contains(line, {"Outgoing SIP Message"}) THEN "Outgoing"
    ELSE ""

\* if 'FROM:' in line: re.search(r'FROM: <(.+?)>', line); "" when no match
from_match(line) ==
    LET i == Leftmost(line, DOMAIN FromValue)
    IN  IF Contains(line, FromLabel) /\ i # 0 THEN FromValue[line[i]] ELSE ""

\* if 'TO:' in line: re.search(r'TO: <(.+?)>', line); "" when no match
to_match(line) ==
    LET i == Leftmost(line, DOMAIN ToValue)
    IN  IF Contains(line, ToLabel) /\ i # 0 THEN ToValue[line[i]] ELSE ""

\* re.search(r'Call End Reason: (.+?)$', line): group 1 is the rest of the
\* line, which must not be empty; <<>> when no match
term_reason_match(line) ==
    LET i == Leftmost(line, {ReasonLabel})
    IN  IF i # 0 /\ i < Len(line) THEN SubSeq(line, i + 1, Len(line)) ELSE <<>>

\* the three updates of current_session
UpdateSessionFirstWins(cs, line) ==
    LET c1 == IF from_match(line) # "" /\ "caller" \notin DOMAIN cs
              THEN Put(cs, "caller", from_match(line)) ELSE cs
        c2 == IF to_match(line) # "" /\ "callee" \notin DOMAIN c1
              THEN Put(c1, "callee", to_match(line)) ELSE c1
    IN  IF term_reason_match(line) # <<>>
        THEN Put(c2, "termination_reason", term_reason_match(line)) ELSE c2

UpdateSessionSwapped(cs, line) ==
    LET c1 == IF from_match(line) # ""
              THEN Put(cs, "callee", from_match(line)) ELSE cs
        c2 == IF to_match(line) # ""
              THEN Put(c1, "caller", to_match(line)) ELSE c1
    IN  IF term_reason_match(line) # <<>>
        THEN Put(c2, "termination_reason", term_reason_match(line)) ELSE c2

UpdateSession(cs, line) ==
    LET c1 == IF from_match(line) # ""
              THEN Put(cs, "caller", from_match(line)) ELSE cs
        c2 == IF to_match(line) # ""
              THEN Put(c1, "callee", to_match(line)) ELSE c1
    IN  IF term_reason_match(line) # <<>>
        THEN Put(c2, "termination_reason", term_reason_match(line)) ELSE c2

\* 'Call End' in line or 'Released' in line
IsCallEndOnlyCallEnd(line) == Contains(line, {"Call End", ReasonLabel})

IsCallEndMarkerAlone(line) ==
    Contains(line, {"Call End"}) \/ Contains(line, {"Released"})

IsCallEnd(line) ==
    Contains(line, {"Call End", ReasonLabel}) \/ Contains(line, {"Released"})

EntryKeys ==
    {"Call End Time", "Session ID", "IP Group", "Caller", "Callee",
     "Direction", "Remote IP", "Termination Reason", "Duration"}

\* the dictionary appended to self.log_entries; a termination reason is text,
\* a sequence of lexemes
NewEntryNoDefault(cs, line) ==
    [k \in EntryKeys |->
        CASE k = "Call End Time"      -> timestamp_match(line)
          [] k = "Session ID"         -> sid_match(line)
          [] k = "IP Group"           -> ip_group(line)
          [] k = "Caller"             -> Get(cs, "caller", "")
          [] k = "Callee"             -> Get(cs, "callee", "")
          [] k = "Direction"          -> direction(line)
          [] k = "Remote IP"          -> remote_ip(line)
          [] k = "Termination Reason" -> Get(cs, "termination_reason", <<>>)
          [] k = "Duration"           -> Get(cs, "duration", "")]

NewEntry(cs, line) ==
    [k \in EntryKeys |->
        CASE k = "Call End Time"      -> timestamp_match(line)
          [] k = "Session ID"         -> sid_match(line)
          [] k = "IP Group"           -> ip_group(line)
          [] k = "Caller"             -> Get(cs, "caller", "")
          [] k = "Callee"             -> Get(cs, "callee", "")
          [] k = "Direction"          -> direction(line)
          [] k = "Remote IP"          -> remote_ip(line)
          [] k = "Termination Reason" ->
                Get(cs, "termination_reason", <<"Normal">>)
          [] k = "Duration"           -> Get(cs, "duration", "")]

\* current_session = {}  # Reset for next call
ResetSessionKept(cs) == cs

ResetSession(cs) == EmptySession

\* the body of the loop for one line: the entries and the session after it
ProcessLineUnguarded(entries, cs, line) ==
    LET upd == UpdateSession(cs, line)
    IN  IF IsCallEnd(line)
        THEN [entries |-> Append(entries, NewEntry(upd, line)),
              session |-> ResetSession(upd)]
        ELSE [entries |-> entries, session |-> upd]

ProcessLine(entries, cs, line) ==
    IF timestamp_match(line) = ""
    THEN [entries |-> entries, session |-> cs]
    ELSE LET upd == UpdateSession(cs, line)
         IN  IF IsCallEnd(line)
             THEN [entries |-> Append(entries, NewEntry(upd, line)),
                   session |-> ResetSession(upd)]
             ELSE [entries |-> entries, session |-> upd]

\* the loop runs out of lines: self.log_entries as parse_log_file leaves it
EndOfFileFlush(entries, cs) ==
    IF cs = EmptySession THEN entries
    ELSE Append(entries,
                [NewEntry(cs, <<>>) EXCEPT !["Call End Time"] = "10:00:05.000"])

EndOfFile(entries, cs) == entries

\* current_session as parse_log_file sets it up
InitialSessionStale(cs) == cs

InitialSession(cs) == EmptySession

----------------------------------------------------------------------------
(* The explanation tables of the three revisions of explain_sip, entry by *)
(* entry as the source has them                                          *)

\* src/TeamsLog.py, sip_explanations
TL_sip_explanations ==
    100 :> "Call is being processed. Please wait."
    @@ 180 :> "Phone is ringing at the destination."
    @@ 181 :> "Call is being redirected to another number."
    @@ 182 :> "Call is in a queue and will be handled soon."
    @@ 183 :> "Call setup is in progress."
    @@ 200 :> "Call connected successfully."
    @@ 202 :> "Request accepted and will be processed."
    @@ 300 :> "Multiple call destinations found."
    @@ 301 :> "Call destination has permanently changed."
    @@ 302 :> "Call destination is temporarily different."
    @@ 305 :> "You must use a specific network route."
    @@ 380 :> "Alternative communication method available."
    @@ 400 :> "Invalid call request. Check the number."
    @@ 401 :> "Authentication required to complete the call."
    @@ 403 :> "Call blocked or not allowed."
    @@ 404 :> "Phone number or user not found."
    @@ 405 :> "Calling method not permitted."
    @@ 406 :> "Call cannot be completed due to incompatible settings."
    @@ 407 :> "Proxy authentication needed."
    @@ 408 :> "No response from the destination. Timeout occurred."
    @@ 410 :> "Number is no longer in service."
    @@ 413 :> "Call request too large to process."
    @@ 414 :> "Phone number too complicated to dial."
    @@ 415 :> "Unsupported communication method."
    @@ 416 :> "Unrecognized phone number format."
    @@ 420 :> "Unsupported communication feature."
    @@ 421 :> "Missing required communication feature."
    @@ 423 :> "Call setup time too short."
    @@ 480 :> "Destination temporarily unavailable."
    @@ 481 :> "Call cannot be found or tracked."
    @@ 482 :> "Call routing has created a loop."
    @@ 483 :> "Too many network hops to complete call."
    @@ 484 :> "Incomplete phone number."
    @@ 485 :> "Unclear which number to call."
    @@ 486 :> "Destination is currently busy."
    @@ 487 :> "Call was cancelled or stopped."
    @@ 488 :> "Call cannot be accepted by recipient."
    @@ 500 :> "Network error. Unable to complete call."
    @@ 501 :> "Call feature not supported."
    @@ 502 :> "Network routing problem."
    @@ 503 :> "Network overloaded or maintenance."
    @@ 504 :> "Network route timeout."
    @@ 505 :> "Unsupported communication protocol."
    @@ 513 :> "Call request too large."
    @@ 600 :> "User is busy everywhere."
    @@ 603 :> "Call explicitly rejected."
    @@ 604 :> "User does not exist."
    @@ 606 :> "Call settings prevent connection."

\* src/TeamsLog.py, microsoft_subcode_explanations
TL_microsoft_subcode_explanations ==
    560486 :> "Network busy or user unavailable."
    @@ 560487 :> "Call cancelled or network timeout."
    @@ 560404 :> "User or number not found."
    @@ 560480 :> "Temporary service interruption."
    @@ 560503 :> "Service currently unavailable."
    @@ 0 :> "No additional details available."

\* src/TeamsLog.py, detailed_explanations
TL_detailed_explanations ==
    100 :>
         "Trying - The request is being processed, but no definitive response is available yet."
    @@ 180 :> "Ringing - The destination user agent is alerting the user."
    @@ 181 :>
         "Call Is Being Forwarded - The call is being redirected to another destination."
    @@ 182 :> "Queued - The request is queued and will be processed soon."
    @@ 183 :>
         "Session Progress - Provides progress information about the call setup."
    @@ 200 :> "OK - The request has been successfully processed and accepted."
    @@ 202 :>
         "Accepted - The request has been accepted for processing, but not completed yet."
    @@ 300 :>
         "Multiple Choices - The requested address resolves to multiple destinations."
    @@ 301 :>
         "Moved Permanently - The requested address is no longer valid and has a new permanent address."
    @@ 302 :>
         "Moved Temporarily - The requested address is temporarily unavailable and has a new temporary address."
    @@ 305 :>
         "Use Proxy - The client must use the specified proxy to reach the destination."
    @@ 380 :>
         "Alternative Service - The request cannot be fulfilled, but an alternative service is available."
    @@ 400 :>
         "Bad Request - The request could not be understood due to malformed syntax."
    @@ 401 :> "Unauthorized - The request requires user authentication."
    @@ 403 :>
         "Forbidden - The server understood the request but refuses to authorize it."
    @@ 404 :>
         "Not Found - The requested user could not be located on the server."
    @@ 405 :>
         "Method Not Allowed - The specified method is not allowed for the requested address."
    @@ 406 :>
         "Not Acceptable - The requested resource cannot generate content matching the client's Accept headers."
    @@ 407 :>
         "Proxy Authentication Required - The client must first authenticate with the proxy."
    @@ 408 :>
         "Request Timeout - No response was received from the destination in a timely manner."
    @@ 410 :>
         "Gone - The requested resource is no longer available and will not be available again."
    @@ 413 :>
         "Request Entity Too Large - The request payload exceeds server processing capabilities."
    @@ 414 :>
         "Request-URI Too Long - The request URI exceeds the server's maximum processing length."
    @@ 415 :>
         "Unsupported Media Type - The request includes a media type the server cannot process."
    @@ 416 :>
         "Unsupported URI Scheme - The request contains a URI scheme the server does not support."
    @@ 420 :>
         "Bad Extension - The server does not understand a specified SIP extension."
    @@ 421 :>
         "Extension Required - The server requires a specific extension not present in the request."
    @@ 423 :>
         "Interval Too Brief - The request's expiration interval is too short."
    @@ 480 :>
         "Temporarily Unavailable - The destination cannot be reached but might be available later."
    @@ 481 :>
         "Call/Transaction Does Not Exist - The call or transaction referenced does not exist."
    @@ 482 :>
         "Loop Detected - The request indicates a loop in the routing path."
    @@ 483 :>
         "Too Many Hops - Maximum number of routing hops has been exceeded."
    @@ 484 :> "Address Incomplete - The request URI is incomplete."
    @@ 485 :>
         "Ambiguous - The request URI is ambiguous and could not be resolved uniquely."
    @@ 486 :>
         "Busy Here - The destination is currently busy and cannot accept the call."
    @@ 487 :>
         "Request Terminated - The request was terminated by the user or network."
    @@ 488 :>
         "Not Acceptable Here - The request cannot be accepted by the recipient."
    @@ 500 :>
         "Server Internal Error - An unexpected condition prevented request fulfillment."
    @@ 501 :>
         "Not Implemented - The server does not support the functionality required."
    @@ 502 :>
         "Bad Gateway - The server received an invalid response from another server."
    @@ 503 :>
         "Service Unavailable - The server is temporarily overloaded or under maintenance."
    @@ 504 :>
         "Server Time-out - No response received from an upstream server."
    @@ 505 :> "Version Not Supported - The SIP version is not supported."
    @@ 513 :>
         "Message Too Large - The message exceeds the server's processing capabilities."
    @@ 600 :>
         "Busy Everywhere - The requested user is busy across all possible locations."
    @@ 603 :> "Decline - The user explicitly declines the call."
    @@ 604 :>
         "Does Not Exist Anywhere - The user cannot be found at any location."
    @@ 606 :>
         "Not Acceptable - The user's preferences do not allow the call to be completed."

\* src/TeasmLogsV2.py, self.sip_categories
V2_sip_categories ==
    "1xx" :> "Provisional"
    @@ "2xx" :> "Success"
    @@ "3xx" :> "Redirection"
    @@ "4xx" :> "Client Error"
    @@ "5xx" :> "Server Error"
    @@ "6xx" :> "Global Failure"

\* src/TeasmLogsV2.py, self.error_categories, in the order of the dictionary
V2_error_categories ==
    << <<"Authentication", {"401", "407"}>>,
       <<"Routing", {"404", "480", "484", "485", "502", "504"}>>,
       <<"Capacity", {"486", "503", "513"}>>,
       <<"Protocol", {"400", "405", "415", "420", "421", "505"}>>,
       <<"Network", {"408", "483", "500", "502"}>>,
       <<"Configuration", {"403", "488", "501", "606"}>> >>

\* src/TeasmLogsV2.py, self.sip_explanations: the dictionary is left empty
V2_sip_explanations == [code \in {} |-> ""]

\* src/TeasmLogsV2.py, self.microsoft_subcode_explanations
V2_microsoft_subcode_explanations ==
    560486 :>
        [description |-> "Network busy or user unavailable",
         cause |->
             "The destination user agent or network is temporarily unavailable",
         resolution |->
             "Retry the call after a brief delay. If persistent, check network conditions."]
    @@ 560487 :>
        [description |-> "Call cancelled or network timeout",
         cause |->
             "The call was terminated due to timeout or user cancellation",
         resolution |-> "Check network latency and connection stability."]
    @@ 560404 :>
        [description |-> "User or number not found",
         cause |-> "The dialed number is invalid or user does not exist",
         resolution |->
             "Verify the phone number and user existence in the system."]
    @@ 560480 :>
        [description |-> "Temporary service interruption",
         cause |-> "Service is temporarily unavailable",
         resolution |->
             "Wait for service restoration and retry. Check service status."]
    @@ 560503 :>
        [description |-> "Service currently unavailable",
         cause |-> "System overload or maintenance",
         resolution |->
             "Wait for service restoration. If persistent, contact support."]

\* src/TeasmLogsV3.py, self.sip_explanations
V3_sip_explanations ==
    100 :> "Call is being processed. Please wait."
    @@ 180 :> "Phone is ringing at the destination."
    @@ 181 :> "Call is being redirected to another number."
    @@ 182 :> "Call is in a queue and will be handled soon."
    @@ 183 :> "Call setup is in progress."
    @@ 200 :> "Call connected successfully."
    @@ 202 :> "Request accepted and will be processed."
    @@ 300 :> "Multiple call destinations found."
    @@ 301 :> "Call destination has permanently changed."
    @@ 302 :> "Call destination is temporarily different."
    @@ 305 :> "You must use a specific network route."
    @@ 380 :> "Alternative communication method available."
    @@ 400 :> "Invalid call request. Check the number."
    @@ 401 :> "Authentication required to complete the call."
    @@ 403 :> "Call blocked or not allowed."
    @@ 404 :> "Phone number or user not found."
    @@ 405 :> "Calling method not permitted."
    @@ 406 :> "Call cannot be completed due to incompatible settings."
    @@ 407 :> "Proxy authentication needed."
    @@ 408 :> "No response from the destination. Timeout occurred."
    @@ 410 :> "Number is no longer in service."
    @@ 413 :> "Call request too large to process."
    @@ 414 :> "Phone number too complicated to dial."
    @@ 415 :> "Unsupported communication method."
    @@ 416 :> "Unrecognized phone number format."
    @@ 420 :> "Unsupported communication feature."
    @@ 421 :> "Missing required communication feature."
    @@ 423 :> "Call setup time too short."
    @@ 480 :> "Destination temporarily unavailable."
    @@ 481 :> "Call cannot be found or tracked."
    @@ 482 :> "Call routing has created a loop."
    @@ 483 :> "Too many network hops to complete call."
    @@ 484 :> "Incomplete phone number."
    @@ 485 :> "Unclear which number to call."
    @@ 486 :> "Destination is currently busy."
    @@ 487 :> "Call was cancelled or stopped."
    @@ 488 :> "Call cannot be accepted by recipient."
    @@ 500 :> "Network error. Unable to complete call."
    @@ 501 :> "Call feature not supported."
    @@ 502 :> "Network routing problem."
    @@ 503 :> "Network overloaded or maintenance."
    @@ 504 :> "Network route timeout."
    @@ 505 :> "Unsupported communication protocol."
    @@ 513 :> "Call request too large."
    @@ 600 :> "User is busy everywhere."
    @@ 603 :> "Call explicitly rejected."
    @@ 604 :> "User does not exist."
    @@ 606 :> "Call settings prevent connection."

\* src/TeasmLogsV3.py, detailed_explanations of the class
V3_detailed_explanations ==
    100 :>
         "Trying - The request is being processed, but no definitive response is available yet."
    @@ 180 :> "Ringing - The destination user agent is alerting the user."
    @@ 181 :>
         "Call Is Being Forwarded - The call is being redirected to another destination."
    @@ 182 :> "Queued - The request is queued and will be processed soon."
    @@ 183 :>
         "Session Progress - Provides progress information about the call setup."
    @@ 200 :> "OK - The request has been successfully processed and accepted."
    @@ 202 :>
         "Accepted - The request has been accepted for processing, but not completed yet."
    @@ 300 :>
         "Multiple Choices - The requested address resolves to multiple destinations."
    @@ 301 :>
         "Moved Permanently - The requested address is no longer valid and has a new permanent address."
    @@ 302 :>
         "Moved Temporarily - The requested address is temporarily unavailable and has a new temporary address."
    @@ 305 :>
         "Use Proxy - The client must use the specified proxy to reach the destination."
    @@ 380 :>
         "Alternative Service - The request cannot be fulfilled, but an alternative service is available."
    @@ 400 :>
         "Bad Request - The request could not be understood due to malformed syntax."
    @@ 401 :> "Unauthorized - The request requires user authentication."
    @@ 403 :>
         "Forbidden - The server understood the request but refuses to authorize it."
    @@ 404 :>
         "Not Found - The requested user could not be located on the server."
    @@ 405 :>
         "Method Not Allowed - The specified method is not allowed for the requested address."
    @@ 406 :>
         "Not Acceptable - The requested resource cannot generate content matching the client's Accept headers."
    @@ 407 :>
         "Proxy Authentication Required - The client must first authenticate with the proxy."
    @@ 408 :>
         "Request Timeout - No response was received from the destination in a timely manner."
    @@ 410 :>
         "Gone - The requested resource is no longer available and will not be available again."
    @@ 413 :>
         "Request Entity Too Large - The request payload exceeds server processing capabilities."
    @@ 414 :>
         "Request-URI Too Long - The request URI exceeds the server's maximum processing length."
    @@ 415 :>
         "Unsupported Media Type - The request includes a media type the server cannot process."
    @@ 416 :>
         "Unsupported URI Scheme - The request contains a URI scheme the server does not support."
    @@ 420 :>
         "Bad Extension - The server does not understand a specified SIP extension."
    @@ 421 :>
         "Extension Required - The server requires a specific extension not present in the request."
    @@ 423 :>
         "Interval Too Brief - The request's expiration interval is too short."
    @@ 480 :>
         "Temporarily Unavailable - The destination cannot be reached but might be available later."
    @@ 481 :>
         "Call/Transaction Does Not Exist - The call or transaction referenced does not exist."
    @@ 482 :>
         "Loop Detected - The request indicates a loop in the routing path."
    @@ 483 :>
         "Too Many Hops - Maximum number of routing hops has been exceeded."
    @@ 484 :> "Address Incomplete - The request URI is incomplete."
    @@ 485 :>
         "Ambiguous - The request URI is ambiguous and could not be resolved uniquely."
    @@ 486 :>
         "Busy Here - The destination is currently busy and cannot accept the call."
    @@ 487 :>
         "Request Terminated - The request was terminated by the user or network."
    @@ 488 :>
         "Not Acceptable Here - The request cannot be accepted by the recipient."
    @@ 500 :>
         "Server Internal Error - An unexpected condition prevented request fulfillment."
    @@ 501 :>
         "Not Implemented - The server does not support the functionality required."
    @@ 502 :>
         "Bad Gateway - The server received an invalid response from another server."
    @@ 503 :>
         "Service Unavailable - The server is temporarily overloaded or under maintenance."
    @@ 504 :>
         "Server Time-out - No response received from an upstream server."
    @@ 505 :> "Version Not Supported - The SIP version is not supported."
    @@ 513 :>
         "Message Too Large - The message exceeds the server's processing capabilities."
    @@ 600 :>
         "Busy Everywhere - The requested user is busy across all possible locations."
    @@ 603 :> "Decline - The user explicitly declines the call."
    @@ 604 :>
         "Does Not Exist Anywhere - The user cannot be found at any location."
    @@ 606 :>
         "Not Acceptable - The user's preferences do not allow the call to be completed."

\* src/TeasmLogsV3.py, self.microsoft_subcode_explanations
V3_microsoft_subcode_explanations ==
    560486 :>
        [description |-> "Network busy or user unavailable",
         cause |->
             "The destination user agent or network is temporarily unavailable",
         resolution |->
             "Retry the call after a brief delay. If persistent, check network conditions."]
    @@ 560487 :>
        [description |-> "Call cancelled or network timeout",
         cause |->
             "The call was terminated due to timeout or user cancellation",
         resolution |-> "Check network latency and connection stability."]
    @@ 560404 :>
        [description |-> "User or number not found",
         cause |-> "The dialed number is invalid or user does not exist",
         resolution |->
             "Verify the phone number and user existence in the system."]
    @@ 560480 :>
        [description |-> "Temporary service interruption",
         cause |-> "Service is temporarily unavailable",
         resolution |->
             "Wait for service restoration and retry. Check service status."]
    @@ 560503 :>
        [description |-> "Service currently unavailable",
         cause |-> "System overload or maintenance",
         resolution |->
             "Wait for service restoration. If persistent, contact support."]

\* the attributes that __init__ and load_explanations give the analyzer of
\* each revision (detailed_explanations is an attribute of the V3 class)
LoadedTables ==
    [V2 |-> [sip_categories |-> V2_sip_categories,
             error_categories |-> V2_error_categories,
             sip_explanations |-> V2_sip_explanations,
             microsoft_subcode_explanations |->
                 V2_microsoft_subcode_explanations],
     V3 |-> [sip_explanations |-> V3_sip_explanations,
             detailed_explanations |-> V3_detailed_explanations,
             microsoft_subcode_explanations |->
                 V3_microsoft_subcode_explanations]]


----------------------------------------------------------------------------
(* The components that a specification does not run stay as constructed *)

NoCounters ==
    [total_attempted_calls |-> 0, successful_calls |-> 0, failed_calls |-> 0,
     warning_calls |-> 0, info_calls |-> 0]

NoData == [exists |-> FALSE, columns |-> {}, rows |-> <<>>]

Sip2Idle ==
    /\ log_entries = <<>>
    /\ current_session = EmptySession
    /\ files = <<>>
    /\ pc = "idle"

SegIdle ==
    /\ log_content = <<>>
    /\ line_no = 0
    /\ current_message = <<>>
    /\ messages = <<>>
    /\ parsed_data = <<>>
    /\ seg_pc = "idle"

PfIdle ==
    /\ version = "V3"
    /\ data = NoData
    /\ row_no = 0
    /\ results = <<>>
    /\ summaries = <<>>
    /\ counters = NoCounters
    /\ stats = <<>>
    /\ written = FALSE
    /\ outcome = <<>>
    /\ pf_pc = "idle"

StIdle ==
    /\ sip_code = 0
    /\ call_status = ""

ExIdle == explained = <<>> /\ tables = LoadedTables

NoAnalyzer == explained = <<>> /\ tables = <<>>

----------------------------------------------------------------------------
(* The state machine of parse_log_file *)

LinesRead == LET RECURSIVE Sum(_)
                 Sum(i) == IF i = 0 THEN 0 ELSE Len(files[i]) + Sum(i - 1)
             IN  Sum(Len(files))

\* analyzer = SIPLogAnalyzer()
Init ==
    /\ log_entries = <<>>
    /\ current_session = EmptySession
    /\ files = <<>>
    /\ pc = "idle"
    /\ SegIdle /\ PfIdle /\ StIdle /\ NoAnalyzer

\* analyzer.parse_log_file(filename) is called and opens the file
Open ==
    /\ pc = "idle"
    /\ Len(files) < MaxCalls
    /\ current_session' = InitialSession(current_session)
    /\ files' = Append(files, <<>>)
    /\ pc' = "reading"
    /\ UNCHANGED <<log_entries, segVars, pfVars, stVars, exVars>>

\* one iteration of `for line in file`
ReadLine ==
    /\ pc = "reading"
    /\ LinesRead < MaxLines
    /\ \E line \in LineSet :
          LET r == ProcessLine(log_entries, current_session, line)
          IN  /\ log_entries' = r.entries
              /\ current_session' = r.session
              /\ files' = [files EXCEPT ![Len(files)] = Append(@, line)]
    /\ UNCHANGED <<pc, segVars, pfVars, stVars, exVars>>

\* the file is exhausted and parse_log_file returns; the local
\* current_session is dead from here on and the next call sets it up anew
Close ==
    /\ pc = "reading"
    /\ log_entries' = EndOfFile(log_entries, current_session)
    /\ pc' = "idle"
    /\ UNCHANGED <<current_session, files, segVars, pfVars, stVars, exVars>>

Next == Open \/ ReadLine \/ Close

Spec == Init /\ [][Next]_vars

----------------------------------------------------------------------------
(* What the properties say about the input, read off the lines themselves *)

EndMarkers == {"Call End", "Released", ReasonLabel}

Carries(line, S) == \E i \in 1..Len(line) : line[i] \in S

TimestampLed(line) == Len(line) > 0 /\ line[1] \in Timestamps

\* a call-end event: a timestamp-led line that carries a call-end marker
DetectedEnd(line) == TimestampLed(line) /\ Carries(line, EndMarkers)

SidOf(line) ==
    IF Carries(line, DOMAIN SidValue)
    THEN SidValue[line[Leftmost(line, DOMAIN SidValue)]] ELSE ""

FromOf(line) ==
    IF TimestampLed(line) /\ Carries(line, DOMAIN FromValue)
    THEN FromValue[line[Leftmost(line, DOMAIN FromValue)]] ELSE ""

ToOf(line) ==
    IF TimestampLed(line) /\ Carries(line, DOMAIN ToValue)
    THEN ToValue[line[Leftmost(line, DOMAIN ToValue)]] ELSE ""

ReasonOf(line) ==
    LET i == Leftmost(line, {ReasonLabel})
    IN  IF TimestampLed(line) /\ i # 0 /\ i < Len(line)
        THEN SubSeq(line, i + 1, Len(line)) ELSE <<>>

\* the call-end events of file n from line i on, in order; each with the
\* lines of its call: those after the previous call-end event (first) up to
\* and including the call-end line (last)
RECURSIVE FileEvents(_, _, _)
FileEvents(n, i, first) ==
    IF i > Len(files[n]) THEN <<>>
    ELSE IF DetectedEnd(files[n][i])
         THEN <<[file |-> n, first |-> first, last |-> i]>>
                 \o FileEvents(n, i + 1, i + 1)
         ELSE FileEvents(n, i + 1, first)

\* the call-end events of all files read so far, in order
RECURSIVE EventsFrom(_)
EventsFrom(n) ==
    IF n > Len(files) THEN <<>> ELSE FileEvents(n, 1, 1) \o EventsFrom(n + 1)

Events == EventsFrom(1)

EventLine(e) == files[e.file][e.last]

Segment(e) == SubSeq(files[e.file], e.first, e.last)

\* the lines read since the last call-end event of the file being read
OpenSegment ==
    LET n == Len(files)
        ev == FileEvents(n, 1, 1)
        s == IF ev = <<>> THEN 1 ELSE ev[Len(ev)].last + 1
    IN  SubSeq(files[n], s, Len(files[n]))

\* the values the lines of seg give, in order, without the lines that give none
Values(seg, Of(_), none) ==
    LET RECURSIVE V(_)
        V(i) == IF i > Len(seg) THEN <<>>
                ELSE IF Of(seg[i]) = none THEN V(i + 1)
                ELSE <<Of(seg[i])>> \o V(i + 1)
    IN  V(1)

\* the value the last matching line of seg gives, none when no line matches
Latest(seg, Of(_), none) ==
    LET v == Values(seg, Of, none)
    IN  IF v = <<>> THEN none ELSE v[Len(v)]

Seen(seg, Of(_), none) ==
    LET v == Values(seg, Of, none) IN {v[i] : i \in 1..Len(v)}

\* the entries that have a call-end event
Matched(ev) ==
    1..(IF Len(log_entries) < Len(ev) THEN Len(log_entries) ELSE Len(ev))

----------------------------------------------------------------------------
Scenario ==
    << <<"10:00:00.000", "INVITE", "FROM: <a@x>", "[SID=S1]">>,
       <<"10:00:01.000", "TO: <b@x>", "[SID=S1]">>,
       <<"10:00:05.000", "Call End", "[SID=S1]">> >>

C2_CallEndGivesSidCallerCallee ==
    LET ev == Events
    IN  /\ Len(log_entries) = Len(ev)
        /\ \A k \in Matched(ev) :
              LET seg == Segment(ev[k])
                  A == Latest(seg, FromOf, "")
                  B == Latest(seg, ToOf, "")
                  S == SidOf(EventLine(ev[k]))
              IN  (Carries(EventLine(ev[k]), {"Call End", ReasonLabel})
                      /\ S # "" /\ A # "" /\ B # "")
                  => /\ log_entries[k]["Session ID"] = S
                     /\ log_entries[k]["Caller"] = A
                     /\ log_entries[k]["Callee"] = B
        /\ files = <<Scenario>> =>
              /\ Len(log_entries) = 1
              /\ log_entries[1]["Session ID"] = "S1"
              /\ log_entries[1]["Caller"] = "a@x"
              /\ log_entries[1]["Callee"] = "b@x"

\* the three-line log has been read to its end
C2_Witness ==
    /\ files = <<Scenario>>
    /\ pc = "idle"
    /\ Len(log_entries) = 1
    /\ log_entries[1]["Caller"] = "a@x"

(* C3: current_session is empty right after an entry is emitted, and holds *)
(* only what the lines since the last call-end event gave it; the Caller,  *)
(* Callee and Termination Reason of an entry were observed on the lines of *)
(* its own call (after the previous call-end line), or are the defaults.   *)
C3_ContextResetAfterEmit ==
    LET ev == Events
        f == files[Len(files)]
    IN  /\ (pc = "reading" /\ Len(f) > 0 /\ DetectedEnd(f[Len(f)]))
               => current_session = EmptySession
        /\ pc = "reading" =>
              /\ Get(current_session, "caller", "")
                    \in Seen(OpenSegment, FromOf, "") \cup {""}
              /\ Get(current_session, "callee", "")
                    \in Seen(OpenSegment, ToOf, "") \cup {""}
        /\ Len(log_entries) = Len(ev)
        /\ \A k \in Matched(ev) :
              /\ log_entries[k]["Caller"]
                    \in Seen(Segment(ev[k]), FromOf, "") \cup {""}
              /\ log_entries[k]["Callee"]
                    \in Seen(Segment(ev[k]), ToOf, "") \cup {""}
              /\ log_entries[k]["Termination Reason"]
                    \in Seen(Segment(ev[k]), ReasonOf, <<>>) \cup {<<"Normal">>}

\* a call with a caller, then a second call-end line with no FROM after the
\* reset: the second entry has no caller
C3_Witness ==
    /\ Len(files) = 1
    /\ Len(log_entries) = 2
    /\ log_entries[1]["Caller"] = "a@x"
    /\ log_entries[2]["Caller"] = ""
    /\ current_session = EmptySession

(* C4 (as claimed): the Caller and Callee of an entry with a non-empty     *)
(* Session ID S were not taken from a line tagged with another session id: *)
(* each was seen, earlier in the file, on a line tagged S or not tagged.   *)
C4_ContextKeyedBySid ==
    LET ev == Events
    IN  \A k \in Matched(ev) :
           LET f == SubSeq(files[ev[k].file], 1, ev[k].last)
               S == log_entries[k]["Session ID"]
               own == SelectSeq(f, LAMBDA l : SidOf(l) \in {S, ""})
           IN  S # "" =>
                  /\ log_entries[k]["Caller"]
                        \in Seen(own, FromOf, "") \cup {""}
                  /\ log_entries[k]["Callee"]
                        \in Seen(own, ToOf, "") \cup {""}

(* C5: when no line of a call carries a session id, the entry emitted at   *)
(* the call-end line carries the most recently seen caller and the most    *)
(* recently seen callee since the last reset, whichever lines they were on.*)
NoSid(seg) == \A i \in 1..Len(seg) : SidOf(seg[i]) = ""

C5_UntaggedLinesMerge ==
    LET ev == Events
    IN  /\ Len(log_entries) = Len(ev)
        /\ \A k \in Matched(ev) :
              NoSid(Segment(ev[k])) =>
                 /\ log_entries[k]["Caller"] = Latest(Segment(ev[k]), FromOf, "")
                 /\ log_entries[k]["Callee"] = Latest(Segment(ev[k]), ToOf, "")

\* untagged lines with two different callers; the entry has the later caller
\* and a callee that came from another line
C5_Witness ==
    /\ Len(log_entries) = 1
    /\ Len(Events) = 1
    /\ NoSid(Segment(Events[1]))
    /\ Cardinality(Seen(Segment(Events[1]), FromOf, "")) = 2
    /\ log_entries[1]["Caller"] = "c@x"
    /\ log_entries[1]["Callee"] = "d@x"
    /\ FromOf(Segment(Events[1])[1]) = "a@x"

(* C6 (as claimed): whole message blocks are folded.  A block is a          *)
(* timestamp-led line with the lines that follow it up to the next         *)
(* timestamp-led line; a call-end marker on any line of a block emits an   *)
(* entry for the block, so there are as many entries as blocks that carry  *)
(* a marker, and a FROM: <v> on a header line makes v the running caller.  *)
BlockCarries(f, j, S) ==
    \E i \in j..Len(f) :
        /\ Carries(f[i], S)
        /\ \A m \in (j + 1)..i : ~TimestampLed(f[m])

EndingBlocks(f) ==
    {j \in 1..Len(f) : TimestampLed(f[j]) /\ BlockCarries(f, j, EndMarkers)}

RECURSIVE EndingBlocksUpTo(_)
EndingBlocksUpTo(n) ==
    IF n = 0 THEN 0
    ELSE Cardinality(EndingBlocks(files[n])) + EndingBlocksUpTo(n - 1)

C6_BlocksFolded ==
    /\ Len(log_entries) = EndingBlocksUpTo(Len(files))
    /\ pc = "reading" =>
          LET f == files[Len(files)]
              n == Len(f)
          IN  (/\ n > 1
               /\ ~TimestampLed(f[n])
               /\ \E j \in 1..(n - 1) : TimestampLed(f[j])
               /\ ~Carries(f[n], EndMarkers)
               /\ Carries(f[n], DOMAIN FromValue))
              => Get(current_session, "caller", "")
                    = FromValue[f[n][Leftmost(f[n], DOMAIN FromValue)]]

(* C7: as long as no line read carries a call-end marker, log_entries is   *)
(* empty, also after the end of the input: reaching the end of a file      *)
(* emits nothing for a session that was being accumulated.                 *)
C7_NoCallEndNoEntry ==
    (\A n \in 1..Len(files) : \A i \in 1..Len(files[n]) :
         ~Carries(files[n][i], EndMarkers))
    => log_entries = <<>>

\* a file with a caller and a callee but no call end was read to its end
C7_Witness ==
    /\ pc = "idle"
    /\ Len(files) = 1
    /\ Len(files[1]) = 3
    /\ \A i \in 1..3 : ~Carries(files[1][i], EndMarkers)
    /\ DOMAIN current_session = {"caller", "callee"}
    /\ log_entries = <<>>

(* C8: the Termination Reason of the entry a line emits is the reason that *)
(* current_session holds at the emission (after the updates of that line), *)
(* or "Normal" when it holds none; no entry has an empty or missing one.   *)
C8_Step ==
    /\ \A k \in 1..Len(log_entries') :
          /\ "Termination Reason" \in DOMAIN log_entries'[k]
          /\ log_entries'[k]["Termination Reason"] # <<>>
    /\ (pc = "reading" /\ pc' = "reading"
           /\ Len(log_entries') = Len(log_entries) + 1)
       => LET f == files'[Len(files')]
              held == UpdateSession(current_session, f[Len(f)])
          IN  log_entries'[Len(log_entries')]["Termination Reason"] =
                 (IF "termination_reason" \in DOMAIN held
                  THEN held["termination_reason"] ELSE <<"Normal">>)

C8_TerminationReasonOrNormal == [][C8_Step]_vars

\* one entry with the reason of its line and one with the default
C8_Witness ==
    /\ Len(log_entries) = 2
    /\ log_entries[1]["Termination Reason"] = <<"Busy", "[SID=S2]">>
    /\ log_entries[2]["Termination Reason"] = <<"Normal">>

(* C9: every entry of log_entries has a non-empty Call End Time, of the    *)
(* form HH:MM:SS.mmm.                                                      *)
C9_EndTimeNonEmpty ==
    \A k \in 1..Len(log_entries) :
       /\ log_entries[k]["Call End Time"] # ""
       /\ log_entries[k]["Call End Time"] \in Timestamps

\* an entry exists although a line without a leading timestamp carried a
\* call-end marker before it
C9_Witness ==
    /\ Len(files) = 1
    /\ Len(files[1]) = 2
    /\ ~TimestampLed(files[1][1])
    /\ Carries(files[1][1], EndMarkers)
    /\ Len(log_entries) = 1
    /\ log_entries[1]["Call End Time"] = "10:00:05.000"

(* C10 (as claimed): the Direction of every entry is Incoming when the     *)
(* line contains the incoming marker, otherwise Outgoing when it contains  *)
(* the outgoing marker, otherwise Internal.                                *)
C10_DirectionThreeValued ==
    LET ev == Events
    IN  \A k \in Matched(ev) :
           /\ log_entries[k]["Direction"] \in {"Incoming", "Outgoing", "Internal"}
           /\ log_entries[k]["Direction"] =
                 (IF Carries(EventLine(ev[k]), {"Incoming SIP Message"})
                  THEN "Incoming"
                  ELSE IF Carries(EventLine(ev[k]), {"Outgoing SIP Message"})
                  THEN "Outgoing" ELSE "Internal")


----------------------------------------------------------------------------
(* src/SIP.py: the text of a log file.  A text is a sequence of lexemes,   *)
(* the newline being a lexeme of its own; a line is a text without newline *)

MaxSegLines == 3

Newline == "\n"

SegTimestamps == {"10:00:00.001", "10:00:00.002", "10:00:00.003"}

\* lexeme |-> group(1) of the pattern it matches
IpLexemeSet == {"10.1.1.1"}

SidGroup == [l \in {"[SID=1a:2]"} |-> "1a:2"]

StatusGroup == [l \in {"SIP/2.0 404"} |-> "404"]

MethodLexemes ==
    {"OPTIONS", "INVITE", "ACK", "BYE", "CANCEL", "REGISTER", "NOTIFY"}

SegLineSet ==
    { <<"10:00:00.001", " ", "Incoming SIP Message">>,
      <<"10:00:00.002", " ", "[SID=1a:2]", " ", "10.1.1.1">>,
      <<"SIP/2.0 404", " ", "Not Found">>,
      <<"INVITE", " ", "sip:b@x">>,
      <<"FROM: ", "<sip:a@x>", " ", "TO: ", "<sip:b@x>">>,
      <<"CALL-ID: ">>,
      <<"USER-AGENT: ", "Teams", " ", "Outgoing SIP Message">>,
      <<>>,
      <<" ">>,
      <<" ", "10:00:00.003">> }

\* the texts of one to MaxSegLines lines
RECURSIVE TextsOf(_)
TextsOf(n) ==
    IF n = 1 THEN SegLineSet
    ELSE LET shorter == TextsOf(n - 1)
         IN  shorter \cup
             { t \o <<Newline>> \o l : t \in shorter, l \in SegLineSet }

\* log_content.split('\n')
RECURSIVE Split(_)
Split(text) ==
    LET at == { i \in 1..Len(text) : text[i] = Newline }
    IN  IF at = {} THEN <<text>>
        ELSE LET i == CHOOSE j \in at : \A k \in at : j <= k
             IN  <<SubSeq(text, 1, i - 1)>>
                 \o Split(SubSeq(text, i + 1, Len(text)))

\* '\n'.join(current_message)
RECURSIVE Join(_)
Join(lines) ==
    IF lines = <<>> THEN <<>>
    ELSE IF Len(lines) = 1 THEN lines[1]
    ELSE lines[1] \o <<Newline>> \o Join(Tail(lines))

\* re.match(r'^\d{2}:\d{2}:\d{2}\.\d{3}', line)
StartsMessageAnywhere(line) == \E i \in 1..Len(line) : line[i] \in SegTimestamps

StartsMessage(line) == Len(line) > 0 /\ line[1] \in SegTimestamps

\* message.strip(): the whitespace at both ends removed
StripKeepsAll(message) == message

RECURSIVE Strip(_)
Strip(message) ==
    IF message = <<>> THEN <<>>
    ELSE IF message[1] \in {" ", Newline} THEN Strip(Tail(message))
    ELSE IF message[Len(message)] \in {" ", Newline}
         THEN Strip(SubSeq(message, 1, Len(message) - 1))
    ELSE message

\* re.search of a pattern that one lexeme matches: group(1) of the leftmost
\* match, '' when there is none
SearchGroup(line, group) ==
    LET at == { i \in 1..Len(line) : line[i] \in DOMAIN group }
    IN  IF at = {} THEN ""
        ELSE group[line[CHOOSE i \in at : \A k \in at : i <= k]]

\* re.search(label + r'([^\n]+)', line): the text that follows the leftmost
\* label that has at least one character before the end of its line
SearchRest(line, label) ==
    LET at == { i \in 1..Len(line) - 1 :
                    line[i] = label /\ line[i + 1] # Newline }
    IN  IF at = {} THEN <<>>
        ELSE LET i == CHOOSE j \in at : \A k \in at : j <= k
                 ends == { j \in i + 1..Len(line) :
                               j = Len(line) \/ line[j + 1] = Newline }
             IN  SubSeq(line, i + 1,
                        CHOOSE j \in ends : \A k \in ends : j <= k)

Same(S) == [l \in S |-> l]

FieldKeys ==
    {"timestamp", "ip", "sid", "message_type", "call_id", "from_uri",
     "to_uri", "user_agent", "direction", "status_code"}

SegDirection(line) ==
    IF Contains(line, {"Incoming SIP Message"}) THEN "Incoming"
    ELSE IF Contains(line, {"Outgoing SIP Message"}) THEN "Outgoing"
    ELSE "Internal"

parse_log_line(line) ==
    [key \in FieldKeys |->
        CASE key = "timestamp" ->
                IF StartsMessage(line) THEN line[1] ELSE ""
          [] key = "ip" -> SearchGroup(line, Same(IpLexemeSet))
          [] key = "sid" -> SearchGroup(line, SidGroup)
          [] key = "message_type" ->
                SearchGroup(line, Same(MethodLexemes \cup DOMAIN StatusGroup))
          [] key = "call_id" -> SearchRest(line, "CALL-ID: ")
          [] key = "from_uri" -> SearchRest(line, "FROM: ")
          [] key = "to_uri" -> SearchRest(line, "TO: ")
          [] key = "user_agent" -> SearchRest(line, "USER-AGENT: ")
          [] key = "direction" -> SegDirection(line)
          [] key = "status_code" -> SearchGroup(line, StatusGroup)]

\* the loop over messages: every message that strip() leaves non-empty is
\* parsed, in order
RECURSIVE ParseMessages(_)
ParseMessages(ms) ==
    IF ms = <<>> THEN <<>>
    ELSE (IF Strip(ms[1]) # <<>> THEN <<parse_log_line(ms[1])>> ELSE <<>>)
         \o ParseMessages(Tail(ms))

----------------------------------------------------------------------------
(* The state machine of analyze_logs *)

\* file.read(): the text of the selected file
ReadFile ==
    /\ seg_pc = "idle"
    /\ \E text \in TextsOf(MaxSegLines) : log_content' = text
    /\ line_no' = 0
    /\ messages' = <<>>
    /\ current_message' = <<>>
    /\ parsed_data' = <<>>
    /\ seg_pc' = "split"
    /\ UNCHANGED <<sip2Vars, pfVars, stVars, exVars>>

\* one iteration of the loop over log_content.split('\n')
SplitLine ==
    /\ seg_pc = "split"
    /\ line_no < Len(Split(log_content))
    /\ LET line == Split(log_content)[line_no + 1]
       IN  IF StartsMessage(line) /\ current_message # <<>>
           THEN /\ messages' = Append(messages, Join(current_message))
                /\ current_message' = <<line>>
           ELSE /\ current_message' = Append(current_message, line)
                /\ UNCHANGED messages
    /\ line_no' = line_no + 1
    /\ UNCHANGED <<log_content, parsed_data, seg_pc, sip2Vars, pfVars, stVars, exVars>>

\* the end of the loop: the last message is added
FlushKeepsLast(ms, cm) == ms

Flush(ms, cm) == IF cm # <<>> THEN Append(ms, Join(cm)) ELSE ms

LastMessage ==
    /\ seg_pc = "split"
    /\ line_no = Len(Split(log_content))
    /\ messages' = Flush(messages, current_message)
    /\ seg_pc' = "parse"
    /\ UNCHANGED <<log_content, line_no, current_message, parsed_data,
                   sip2Vars, pfVars, stVars, exVars>>

\* the loop over messages
Parse ==
    /\ seg_pc = "parse"
    /\ parsed_data' = ParseMessages(messages)
    /\ seg_pc' = "done"
    /\ UNCHANGED <<log_content, line_no, current_message, messages,
                   sip2Vars, pfVars, stVars, exVars>>

SegInit == Sip2Idle /\ SegIdle /\ PfIdle /\ StIdle /\ NoAnalyzer

SegNext == ReadFile \/ SplitLine \/ LastMessage \/ Parse

SpecSegment == SegInit /\ [][SegNext]_vars


----------------------------------------------------------------------------
(* What the segmentation claims speak of, read off the text itself *)

\* the positions of the text where a timestamp-led line starts
LedStarts ==
    { i \in 1..Len(log_content) :
        /\ log_content[i] \in SegTimestamps
        /\ (i = 1 \/ log_content[i - 1] = Newline) }

\* the positions where a block starts if boundaries lie exactly before the
\* timestamp-led lines
Cuts == {1} \cup LedStarts

Nth(S, k) == CHOOSE x \in S : Cardinality({ y \in S : y <= x }) = k

\* the k-th stretch of the text between two boundaries, without the newline
\* that ends it
Piece(k) ==
    SubSeq(log_content, Nth(Cuts, k),
           IF k = Cardinality(Cuts) THEN Len(log_content)
           ELSE Nth(Cuts, k + 1) - 2)

Blank(text) == \A i \in 1..Len(text) : text[i] \in {" ", Newline}

Led(text) == text # <<>> /\ Head(text) \in SegTimestamps

\* the number of timestamp-led lines inside a block
LedInside(text) ==
    Cardinality({ i \in 1..Len(text) :
                    /\ text[i] \in SegTimestamps
                    /\ (i = 1 \/ text[i - 1] = Newline) })

\* the blocks that segmentation returns: the blank ones are dropped
Blocks == SelectSeq(messages, LAMBDA m : ~Blank(m))

\* the text before the first timestamp-led line, <<>> if the text starts
\* with a timestamp-led line
Preamble == IF 1 \in LedStarts THEN <<>> ELSE Piece(1)

RECURSIVE Rejoin(_)
Rejoin(blocks) ==
    IF Len(blocks) = 0 THEN <<>>
    ELSE IF Len(blocks) = 1 THEN blocks[1]
    ELSE blocks[1] \o <<"\n">> \o Rejoin(Tail(blocks))

----------------------------------------------------------------------------
\* C11 as stated: a text without timestamp-led line, the empty and the
\* whitespace-only text included, gives exactly one block, and the block is
\* the whole input.
C11_OneBlockAlways ==
    (seg_pc = "done" /\ LedStarts = {})
        => Blocks = <<log_content>> /\ Len(parsed_data) = 1

\* C11 as the code has it: a text without timestamp-led line gives exactly one
\* block, the whole input, unless the text is empty or whitespace only; then
\* the one message collected is dropped and nothing is returned.
C11_OneBlockUnlessBlank ==
    (seg_pc = "done" /\ LedStarts = {})
        => /\ messages = <<log_content>>
           /\ IF Blank(log_content)
              THEN Blocks = <<>> /\ parsed_data = <<>>
              ELSE Blocks = <<log_content>> /\ Len(parsed_data) = 1

C11_Witness ==
    /\ seg_pc = "done"
    /\ LedStarts = {}
    /\ ~Blank(log_content)
    /\ \E i \in 1..Len(log_content) : log_content[i] = Newline
    /\ Len(parsed_data) = 1

\* C12 as stated: a text with N >= 1 timestamp-led lines gives exactly N
\* blocks, each starting with exactly one timestamp-led line; the lines before
\* the first timestamp-led line form no block of their own.
C12_NBlocksAlways ==
    (seg_pc = "done" /\ LedStarts # {})
        => /\ Len(Blocks) = Cardinality(LedStarts)
           /\ Len(parsed_data) = Cardinality(LedStarts)
           /\ \A k \in 1..Len(Blocks) :
                 Led(Blocks[k]) /\ LedInside(Blocks[k]) = 1

\* C12 as the code has it: a text with N >= 1 timestamp-led lines gives one
\* block per timestamp-led line, each starting with that line and holding no
\* other, and before them one more block made of the lines that precede the
\* first timestamp-led line unless those lines are absent or blank.
C12_NBlocksAfterPreamble ==
    (seg_pc = "done" /\ LedStarts # {})
        => LET n == Cardinality(LedStarts)
               extra == IF Blank(Preamble) THEN 0 ELSE 1
           IN  /\ Len(Blocks) = n + extra
               /\ Len(parsed_data) = n + extra
               /\ extra = 1 => Blocks[1] = Preamble /\ LedInside(Blocks[1]) = 0
               /\ \A k \in 1..n :
                     /\ Led(Blocks[extra + k])
                     /\ LedInside(Blocks[extra + k]) = 1

C12_Witness ==
    /\ seg_pc = "done"
    /\ Cardinality(LedStarts) = 2
    /\ ~Blank(Preamble)
    /\ Len(Blocks) = 3

\* C13: block boundaries lie exactly before the lines that start with a
\* timestamp, every line is in exactly one block, the blocks joined in order
\* give the input back, and the blocks returned are the non-blank ones, in
\* order, each parsed once.
C13_BlocksPartitionInput ==
    seg_pc = "done"
        => /\ Len(messages) = Cardinality(Cuts)
           /\ \A k \in 1..Len(messages) : messages[k] = Piece(k)
           /\ Rejoin(messages) = log_content
           /\ Len(parsed_data) = Len(Blocks)
           /\ \A k \in 1..Len(Blocks) :
                 parsed_data[k]["timestamp"] =
                     IF Led(Blocks[k]) THEN Head(Blocks[k]) ELSE ""

C13_Witness ==
    /\ seg_pc = "done"
    /\ Len(messages) = 2
    /\ Len(Blocks) = 1
    /\ \E i \in 2..Len(log_content) :
          log_content[i] \in SegTimestamps /\ log_content[i - 1] # Newline

\* C14 as stated: every record extracted holds the twelve keys timestamp, ip,
\* remote_ip, sid, message_type, status_code, call_id, from_uri, to_uri,
\* user_agent, ip_group, direction.
C14_TwelveFieldKeys ==
    \A k \in 1..Len(parsed_data) :
        DOMAIN parsed_data[k] =
            {"timestamp", "ip", "remote_ip", "sid", "message_type",
             "status_code", "call_id", "from_uri", "to_uri", "user_agent",
             "ip_group", "direction"}


----------------------------------------------------------------------------
(* src/TeasmLogsV3.py: determine_call_status *)

MaxCode == 999

SUCCESS == "SUCCESS"
FAILED == "FAILED"
WARNING == "WARNING"
INFO == "INFO"

\* str(n) for an integer n, as the sequence of its characters
RECURSIVE Digits(_)
Digits(n) ==
    LET d == <<"0", "1", "2", "3", "4", "5", "6", "7", "8", "9">>[(n % 10) + 1]
    IN  IF n < 10 THEN <<d>> ELSE Append(Digits(n \div 10), d)

Str(n) == IF n < 0 THEN <<"-">> \o Digits(0 - n) ELSE Digits(n)

\* s.startswith(prefixes)
StartsWith(s, prefixes) == Len(s) > 0 /\ s[1] \in prefixes

\* the argument s is str(sip_code)
determine_call_status_Without6(s) ==
    IF StartsWith(s, {"2"}) THEN SUCCESS
    ELSE IF StartsWith(s, {"1"}) THEN INFO
    ELSE IF StartsWith(s, {"4", "5"}) THEN FAILED
    ELSE IF StartsWith(s, {"3"}) THEN WARNING
    ELSE INFO

determine_call_status(s) ==
    IF StartsWith(s, {"2"}) THEN SUCCESS
    ELSE IF StartsWith(s, {"1"}) THEN INFO
    ELSE IF StartsWith(s, {"4", "5", "6"}) THEN FAILED
    ELSE IF StartsWith(s, {"3"}) THEN WARNING
    ELSE INFO

\* one call analyzer.determine_call_status(code)
DetermineCallStatus ==
    /\ call_status = ""
    /\ \E code \in (0 - MaxCode)..MaxCode :
          /\ sip_code' = code
          /\ call_status' = determine_call_status(Str(code))
    /\ UNCHANGED <<sip2Vars, segVars, pfVars, exVars>>

StInit == Sip2Idle /\ SegIdle /\ PfIdle /\ StIdle /\ ExIdle

StNext == DetermineCallStatus

SpecStatus == StInit /\ [][StNext]_vars

\* the leading digit of a code that is not negative
LeadingDigit(n) ==
    CHOOSE d \in 0..9 :
        \E k \in 0..9 : n \div (10 ^ k) = d /\ (d > 0 \/ n = 0)

\* C15: the status is fixed by the leading digit of the code: 1 gives INFO,
\* 2 SUCCESS, 3 WARNING, 4, 5 and 6 FAILED, every other leading digit INFO.
\* A negative code has no leading digit (it is written with a sign first) and
\* gives INFO.
C15_StatusByLeadingDigit ==
    call_status # ""
        => call_status =
              IF sip_code < 0 THEN "INFO"
              ELSE CASE LeadingDigit(sip_code) = 1 -> "INFO"
                     [] LeadingDigit(sip_code) = 2 -> "SUCCESS"
                     [] LeadingDigit(sip_code) = 3 -> "WARNING"
                     [] LeadingDigit(sip_code) \in {4, 5, 6} -> "FAILED"
                     [] OTHER -> "INFO"

C15_Witness == sip_code = 603 /\ call_status = "FAILED"


----------------------------------------------------------------------------
(* explain_sip, in its three revisions *)

\* the characters of a text put together: str(n) is Text(Str(n))
RECURSIVE Text(_)
Text(chars) == IF chars = <<>> THEN "" ELSE Head(chars) \o Text(Tail(chars))

\* src/TeamsLog.py: returns (full_simple_explanation, full_detailed_explanation)
TL_explain_sip(final_sip_code, microsoft_subcode, sip_phrase) ==
    LET simple_explanation ==
            Get(TL_sip_explanations, final_sip_code,
                "Unknown call issue: " \o Text(Str(final_sip_code)))
        subcode_explanation ==
            Get(TL_microsoft_subcode_explanations, microsoft_subcode,
                "Unrecognized network condition: "
                    \o Text(Str(microsoft_subcode)))
        detailed_explanation ==
            Get(TL_detailed_explanations, final_sip_code,
                "Detailed technical explanation not available.")
    IN  << simple_explanation \o " " \o subcode_explanation,
           "SIP Code: " \o Text(Str(final_sip_code)) \o " | "
               \o detailed_explanation \o " | Subcode: "
               \o Text(Str(microsoft_subcode)) \o " | Original Phrase: "
               \o sip_phrase >>

V2_get_error_category_Last(code) ==
    LET hits == { i \in 1..Len(tables.V2.error_categories) :
                    Text(Str(code)) \in tables.V2.error_categories[i][2] }
    IN  IF hits = {} THEN "Uncategorized"
        ELSE tables.V2.error_categories[
                 CHOOSE i \in hits : \A k \in hits : i >= k][1]

\* src/TeasmLogsV2.py: the first category, in the order of the dictionary,
\* whose list holds str(sip_code)
V2_get_error_category(code) ==
    LET hits == { i \in 1..Len(tables.V2.error_categories) :
                    Text(Str(code)) \in tables.V2.error_categories[i][2] }
    IN  IF hits = {} THEN "Uncategorized"
        ELSE tables.V2.error_categories[
                 CHOOSE i \in hits : \A k \in hits : i <= k][1]

\* src/TeasmLogsV2.py: returns (simple_explanation, detailed_explanation,
\* diagnostic_info)
V2_explain_sip(final_sip_code, microsoft_subcode, sip_phrase) ==
    LET category_prefix == Str(final_sip_code)[1] \o "xx"
        category ==
            Get(tables.V2.sip_categories, category_prefix, "Unknown Category")
        error_category == V2_get_error_category(final_sip_code)
        simple_explanation ==
            Get(tables.V2.sip_explanations, final_sip_code,
                "Unknown call issue: " \o Text(Str(final_sip_code)))
        subcode_info ==
            Get(tables.V2.microsoft_subcode_explanations, microsoft_subcode,
                [description |-> "Unrecognized network condition: "
                                     \o Text(Str(microsoft_subcode)),
                 cause |-> "Unknown",
                 resolution |-> "Contact support for more information"])
        diagnostic_info ==
            [sip_code |-> final_sip_code,
             category |-> category,
             error_category |-> error_category,
             subcode |-> microsoft_subcode,
             subcode_description |-> subcode_info.description,
             cause |-> subcode_info.cause,
             resolution |-> subcode_info.resolution,
             original_phrase |-> sip_phrase]
        detailed_explanation ==
            "Category: " \o category \o " (" \o error_category \o ")\n"
            \o "SIP Code " \o Text(Str(final_sip_code)) \o ": "
            \o simple_explanation \o "\n"
            \o "Microsoft Subcode " \o Text(Str(microsoft_subcode)) \o ": "
            \o subcode_info.description \o "\n"
            \o "Cause: " \o subcode_info.cause \o "\n"
            \o "Resolution: " \o subcode_info.resolution \o "\n"
            \o "Original Phrase: " \o sip_phrase
    IN  <<simple_explanation, detailed_explanation, diagnostic_info>>

\* src/TeasmLogsV3.py: returns (simple_exp, detailed_exp, diagnostic)
V3_subcode_info_ByCode(code, microsoft_subcode) ==
    Get(tables.V3.microsoft_subcode_explanations,
        IF code = 404 THEN microsoft_subcode ELSE 0,
        [description |-> "Unknown subcode",
         cause |-> "No information available",
         resolution |-> "Contact support for more information"])

V3_subcode_info(code, microsoft_subcode) ==
    Get(tables.V3.microsoft_subcode_explanations, microsoft_subcode,
        [description |-> "Unknown subcode",
         cause |-> "No information available",
         resolution |-> "Contact support for more information"])

V3_explain_sip(code, microsoft_subcode, sip_phrase) ==
    LET simple_exp == Get(tables.V3.sip_explanations, code, "Unknown SIP code")
        detailed_exp ==
            Get(tables.V3.detailed_explanations, code,
                "No detailed explanation available")
        subcode_info == V3_subcode_info(code, microsoft_subcode)
        diagnostic ==
            [Technical_Details |->
                 "SIP " \o Text(Str(code)) \o " - " \o sip_phrase,
             Microsoft_Subcode |->
                 Text(Str(microsoft_subcode)) \o " - "
                     \o subcode_info.description,
             Cause |-> subcode_info.cause,
             Resolution |-> subcode_info.resolution]
    IN  <<simple_exp, detailed_exp, diagnostic>>

----------------------------------------------------------------------------
(* One call of explain_sip, of any revision, with integer arguments *)

SubcodeSet == {0, 1, 560404, 560486, 560503}

PhraseSet == {"Not Found", "OK"}

Call(revision, code, subcode, phrase, result) ==
    [revision |-> revision, final_sip_code |-> code,
     microsoft_subcode |-> subcode, sip_phrase |-> phrase, result |-> result]

TablesAfterExplainCaching(t, revision, code, microsoft_subcode) ==
    IF revision = "V3" /\ code \notin DOMAIN t.V3.sip_explanations
    THEN [t EXCEPT !.V3.sip_explanations = (code :> "Unknown SIP code") @@ @]
    ELSE t

\* the tables after a call of explain_sip: it only reads them, with
\* dict.get, and assigns to no attribute
TablesAfterExplain(t, revision, code, microsoft_subcode) == t

\* TeamsLog.py builds its tables anew inside each call
ExplainTL ==
    /\ explained = <<>>
    /\ \E code \in 0..MaxCode, subcode \in SubcodeSet, phrase \in PhraseSet :
          explained' = << Call("TeamsLog", code, subcode, phrase,
                               TL_explain_sip(code, subcode, phrase)) >>
    /\ UNCHANGED <<tables, sip2Vars, segVars, pfVars, stVars>>

ExplainV2 ==
    /\ explained = <<>>
    /\ \E code \in 0..MaxCode, subcode \in SubcodeSet, phrase \in PhraseSet :
          /\ explained' = << Call("V2", code, subcode, phrase,
                                  V2_explain_sip(code, subcode, phrase)) >>
          /\ tables' = TablesAfterExplain(tables, "V2", code, subcode)
    /\ UNCHANGED <<sip2Vars, segVars, pfVars, stVars>>

ExplainV3 ==
    /\ explained = <<>>
    /\ \E code \in 0..MaxCode, subcode \in SubcodeSet, phrase \in PhraseSet :
          /\ explained' = << Call("V3", code, subcode, phrase,
                                  V3_explain_sip(code, subcode, phrase)) >>
          /\ tables' = TablesAfterExplain(tables, "V3", code, subcode)
    /\ UNCHANGED <<sip2Vars, segVars, pfVars, stVars>>

ExInit == Sip2Idle /\ SegIdle /\ PfIdle /\ StIdle /\ ExIdle

ExNext == ExplainV3 \/ ExplainV2 \/ ExplainTL

SpecExplain == ExInit /\ [][ExNext]_vars

----------------------------------------------------------------------------
(* Several calls of explain_sip on the same analyzer, one after another *)

MaxHistory == 3

HistoryCodes == {404, 999}

HistorySubcodes == {1, 560404}

ExplainAgainV2 ==
    /\ Len(explained) < MaxHistory
    /\ \E code \in HistoryCodes, subcode \in HistorySubcodes,
          phrase \in PhraseSet :
          /\ explained' =
                 Append(explained,
                        Call("V2", code, subcode, phrase,
                             V2_explain_sip(code, subcode, phrase)))
          /\ tables' = TablesAfterExplain(tables, "V2", code, subcode)
    /\ UNCHANGED <<sip2Vars, segVars, pfVars, stVars>>

ExplainAgainV3 ==
    /\ Len(explained) < MaxHistory
    /\ \E code \in HistoryCodes, subcode \in HistorySubcodes,
          phrase \in PhraseSet :
          /\ explained' =
                 Append(explained,
                        Call("V3", code, subcode, phrase,
                             V3_explain_sip(code, subcode, phrase)))
          /\ tables' = TablesAfterExplain(tables, "V3", code, subcode)
    /\ UNCHANGED <<sip2Vars, segVars, pfVars, stVars>>

HistoryNext == ExplainAgainV3 \/ ExplainAgainV2

SpecHistory == ExInit /\ [][HistoryNext]_vars

\* the explanations that contain "not found", whatever the case of the
\* letters, among those a revision returns for code 404 and subcode 560404
ContainsNotFound ==
    { "Phone number or user not found.",
      "Phone number or user not found. User or number not found." }

\* C16 as stated: explaining (404, 560404, "Not Found") gives an explanation
\* that contains "not found" and the error_category "Routing".
C16_NotFoundIsRouting ==
    \A k \in 1..Len(explained) :
        LET call == explained[k]
        IN  (/\ call.final_sip_code = 404
             /\ call.microsoft_subcode = 560404
             /\ call.sip_phrase = "Not Found")
                => /\ call.result[1] \in ContainsNotFound
                   /\ Len(call.result) = 3
                   /\ "error_category" \in DOMAIN call.result[3]
                   /\ call.result[3]["error_category"] = "Routing"

\* the status-code table of a revision
SipExplanationsOf(revision) ==
    CASE revision = "TeamsLog" -> TL_sip_explanations
      [] revision = "V2" -> V2_sip_explanations
      [] revision = "V3" -> V3_sip_explanations

\* C17 as stated: a code absent from the status-code table is explained by
\* exactly "Unknown call issue: {code}", a code present in the table by the
\* table's text for it.
C17_UnknownCodeSynthesized ==
    \A k \in 1..Len(explained) :
        LET call == explained[k]
            table == SipExplanationsOf(call.revision)
        IN  call.result[1] =
                IF call.final_sip_code \in DOMAIN table
                THEN table[call.final_sip_code]
                ELSE "Unknown call issue: " \o ToString(call.final_sip_code)


----------------------------------------------------------------------------
(* process_file of src/TeasmLogsV2.py and src/TeasmLogsV3.py: the table   *)
(* that pd.read_excel returns                                             *)

MaxRows == 3

\* the rows of a table that lacks a column
MaxShortRows == 1

AllColumns ==
    {"UPN", "Display Name", "Start time", "Duration (seconds)",
     "Final SIP code", "Final Microsoft subcode", "Final SIP Phrase"}

\* the columns a table lacks, one set per table shape
MissingSets ==
    { {},
      {"Final SIP code"},
      {"Final Microsoft subcode", "Final SIP Phrase"},
      {"Final SIP code", "Final SIP Phrase", "UPN"},
      {"UPN"},
      {"Duration (seconds)", "Start time", "Display Name"} }

\* a cell holds an integer, a text (the sequence of its characters) or NaN
IntCell(n) == [kind |-> "int", val |-> n]

TextCell(chars) == [kind |-> "str", val |-> chars]

NaN == [kind |-> "nan", val |-> 0]

Row(code, subcode, phrase, duration) ==
    [code |-> code, subcode |-> subcode, phrase |-> phrase,
     duration |-> duration, start |-> "2024-05-01 09:00", name |-> "Alice"]

\* the duration is an integer or, where the cell is blank, NaN
RowSet ==
    { Row(IntCell(200), IntCell(0), "OK", IntCell(30)),
      Row(IntCell(404), IntCell(560404), "Not Found", IntCell(0)),
      Row(IntCell(404), IntCell(1), "Not Found", IntCell(0 - 5)),
      Row(IntCell(486), IntCell(560404), "Busy Here", IntCell(45)),
      Row(IntCell(302), IntCell(560486), "Moved Temporarily", IntCell(30)),
      Row(IntCell(999), IntCell(560486), "Unknown", NaN),
      Row(TextCell(<<"4", "0", "4">>), IntCell(560404), "Not Found",
          IntCell(30)),
      Row(TextCell(<<"a", "b", "c">>), IntCell(560404), "Not Found",
          IntCell(30)),
      Row(IntCell(404), NaN, "Not Found", IntCell(0)) }

\* the tables of at most n rows
RECURSIVE RowsOf(_)
RowsOf(n) ==
    IF n = 0 THEN {<<>>}
    ELSE LET shorter == RowsOf(n - 1)
         IN  shorter \cup { Append(rows, r) : rows \in shorter, r \in RowSet }

input_path == "input.xlsx"

output_path == "output.xlsx"

\* str(cell)
CellStr(cell) ==
    CASE cell.kind = "int" -> Str(cell.val)
      [] cell.kind = "str" -> cell.val
      [] cell.kind = "nan" -> <<"n", "a", "n">>

DigitValue == [c \in {"0", "1", "2", "3", "4", "5", "6", "7", "8", "9"} |->
                 CHOOSE d \in 0..9 : Digits(d) = <<c>>]

RECURSIVE Number(_)
Number(chars) ==
    IF chars = <<>> THEN 0
    ELSE 10 * Number(SubSeq(chars, 1, Len(chars) - 1))
         + DigitValue[chars[Len(chars)]]

\* int(cell): the value, or the message of the ValueError it raises
IntOf(cell) ==
    CASE cell.kind = "int" -> [error |-> "", value |-> cell.val]
      [] cell.kind = "str" ->
            IF cell.val # <<>> /\ \A i \in 1..Len(cell.val) :
                                      cell.val[i] \in DOMAIN DigitValue
            THEN [error |-> "", value |-> Number(cell.val)]
            ELSE [error |-> "invalid literal for int() with base 10: '"
                               \o Text(cell.val) \o "'",
                  value |-> 0]
      [] cell.kind = "nan" ->
            [error |-> "cannot convert float NaN to integer", value |-> 0]

\* str(KeyError(column))
KeyError(column) == "'" \o column \o "'"

\* ', '.join(fields)
RECURSIVE CommaJoin(_)
CommaJoin(fields) ==
    IF fields = <<>> THEN ""
    ELSE IF Len(fields) = 1 THEN fields[1]
    ELSE fields[1] \o ", " \o CommaJoin(Tail(fields))


----------------------------------------------------------------------------
(* The state machine of process_file.  A return ends the call; the lists  *)
(* and counters keep the values they had when the call ended              *)

Table(missing, rows) ==
    [exists |-> TRUE, columns |-> AllColumns \ missing, rows |-> rows]

Inputs ==
    {NoData}
    \cup { Table({}, rows) : rows \in RowsOf(MaxRows) }
    \cup { Table(missing, rows) :
             missing \in MissingSets \ {{}}, rows \in RowsOf(MaxShortRows) }

\* TeasmLogsV2.py: required_fields
required_fields ==
    <<"UPN", "Display Name", "Final SIP code", "Final Microsoft subcode",
      "Final SIP Phrase">>

\* what evaluating int(row['Final SIP code']), int(row['Final Microsoft
\* subcode']), row['Final SIP Phrase'] raises, in that order; "" if nothing
ArgsError(columns, row) ==
    IF "Final SIP code" \notin columns THEN KeyError("Final SIP code")
    ELSE IF IntOf(row.code).error # "" THEN IntOf(row.code).error
    ELSE IF "Final Microsoft subcode" \notin columns
         THEN KeyError("Final Microsoft subcode")
    ELSE IF IntOf(row.subcode).error # "" THEN IntOf(row.subcode).error
    ELSE IF "Final SIP Phrase" \notin columns
         THEN KeyError("Final SIP Phrase")
    ELSE ""

\* the except clause of process_file
Failed(message) == <<FALSE, "Error processing file: " \o message>>

Succeeded ==
    <<TRUE, "Successfully processed file. Output saved to: " \o output_path>>

Begin(v, input) ==
    /\ version' = v
    /\ data' = input
    /\ row_no' = 0
    /\ results' = <<>>
    /\ summaries' = <<>>
    /\ counters' = NoCounters
    /\ stats' = <<>>
    /\ written' = FALSE
    /\ UNCHANGED <<sip2Vars, segVars, stVars, exVars>>

\* TeasmLogsV2.py: the call, up to the loop over the rows
ProcessFileV2 ==
    /\ pf_pc = "idle"
    /\ \E input \in Inputs :
        /\ Begin("V2", input)
        /\ LET missing_fields ==
                   SelectSeq(required_fields,
                             LAMBDA field : field \notin input.columns)
           IN  IF ~input.exists
               THEN /\ outcome' = <<FALSE, "Input file does not exist">>
                    /\ pf_pc' = "done"
               ELSE IF missing_fields # <<>>
               THEN /\ outcome' =
                          <<FALSE, "Missing required fields: "
                                       \o CommaJoin(missing_fields)>>
                    /\ pf_pc' = "done"
               ELSE /\ outcome' = <<>>
                    /\ pf_pc' = "rows"

\* TeasmLogsV3.py: the call, up to the loop over the rows
ProcessFileV3 ==
    /\ pf_pc = "idle"
    /\ \E input \in Inputs :
        /\ Begin("V3", input)
        /\ IF ~input.exists
           THEN /\ outcome' =
                      Failed("[Errno 2] No such file or directory: '"
                                 \o input_path \o "'")
                /\ pf_pc' = "done"
           ELSE /\ outcome' = <<>>
                /\ pf_pc' = "rows"

Raise(message) ==
    /\ outcome' = Failed(message)
    /\ pf_pc' = "done"
    /\ UNCHANGED <<row_no, results, summaries, counters, stats>>

\* TeasmLogsV2.py: one iteration of the loop over data.iterrows()
RowV2 ==
    /\ pf_pc = "rows" /\ version = "V2"
    /\ row_no < Len(data.rows)
    /\ LET row == data.rows[row_no + 1]
           error == ArgsError(data.columns, row)
           explained_row ==
               V2_explain_sip(IntOf(row.code).value, IntOf(row.subcode).value,
                              row.phrase)
       IN  IF error # "" THEN Raise(error)
           ELSE /\ results' =
                      Append(results,
                             [Simple_Explanation |-> explained_row[1],
                              Detailed_Explanation |-> explained_row[2]]
                                 @@ explained_row[3])
                /\ row_no' = row_no + 1
                /\ UNCHANGED <<summaries, counters, outcome, pf_pc>>
    /\ UNCHANGED <<version, data, stats, written, sip2Vars, segVars, stVars,
                   exVars>>

\* duration > 0, which is False of NaN
Positive(duration) == duration.kind = "int" /\ duration.val > 0

CountWithoutFailed(c, duration, status) ==
    IF duration.kind = "int" /\ duration.val > 0
    THEN [c EXCEPT
            !.total_attempted_calls = @ + 1,
            !.successful_calls = IF status = SUCCESS THEN @ + 1 ELSE @,
            !.warning_calls = IF status = WARNING THEN @ + 1 ELSE @,
            !.info_calls = IF status = INFO THEN @ + 1 ELSE @]
    ELSE c

CountEveryRow(c, duration, status) ==
    [c EXCEPT
        !.total_attempted_calls = @ + 1,
        !.successful_calls = IF status = SUCCESS THEN @ + 1 ELSE @,
        !.failed_calls = IF status = FAILED THEN @ + 1 ELSE @,
        !.warning_calls = IF status = WARNING THEN @ + 1 ELSE @,
        !.info_calls = IF status = INFO THEN @ + 1 ELSE @]

\* the counters after a call of the given duration and status
Count(c, duration, status) ==
    IF Positive(duration)
    THEN [c EXCEPT
            !.total_attempted_calls = @ + 1,
            !.successful_calls = IF status = SUCCESS THEN @ + 1 ELSE @,
            !.failed_calls = IF status = FAILED THEN @ + 1 ELSE @,
            !.warning_calls = IF status = WARNING THEN @ + 1 ELSE @,
            !.info_calls = IF status = INFO THEN @ + 1 ELSE @]
    ELSE c

\* TeasmLogsV3.py: one iteration of the loop over data.iterrows()
RowV3 ==
    /\ pf_pc = "rows" /\ version = "V3"
    /\ row_no < Len(data.rows)
    /\ LET row == data.rows[row_no + 1]
           duration ==
               IF "Duration (seconds)" \in data.columns THEN row.duration
               ELSE IntCell(0)
           error == ArgsError(data.columns, row)
           explained_row ==
               V3_explain_sip(IntOf(row.code).value, IntOf(row.subcode).value,
                              row.phrase)
           status == determine_call_status(CellStr(row.code))
       IN  IF error # "" THEN Raise(error)
           ELSE /\ counters' = Count(counters, duration, status)
                /\ results' =
                      Append(results,
                             [Status |-> status,
                              Simple_Explanation |-> explained_row[1],
                              Detailed_Explanation |-> explained_row[2],
                              Duration |-> duration]
                                 @@ explained_row[3])
                /\ summaries' =
                      Append(summaries,
                             [Date |-> IF "Start time" \in data.columns
                                       THEN row.start ELSE "Unknown",
                              User |-> IF "Display Name" \in data.columns
                                       THEN row.name ELSE "Unknown",
                              Status |-> status,
                              Duration |-> duration,
                              SIP_Code |-> row.code,
                              Brief_Explanation |-> explained_row[1]])
                /\ row_no' = row_no + 1
                /\ UNCHANGED <<outcome, pf_pc>>
    /\ UNCHANGED <<version, data, stats, written, sip2Vars, segVars, stVars,
                   exVars>>

\* TeasmLogsV2.py: after the loop.  Without results the frame has no column
\* error_category and groupby raises KeyError
FinishV2 ==
    /\ pf_pc = "rows" /\ version = "V2"
    /\ row_no = Len(data.rows)
    /\ IF results = <<>>
       THEN /\ outcome' = Failed(KeyError("error_category"))
            /\ UNCHANGED written
       ELSE /\ written' = TRUE
            /\ outcome' = Succeeded
    /\ pf_pc' = "done"
    /\ UNCHANGED <<version, data, row_no, results, summaries, counters, stats,
                   sip2Vars, segVars, stVars, exVars>>

\* a float with at most two decimals, held as its number of hundredths
Float2(hundredths) == [kind |-> "float", val |-> hundredths]

\* round(num / den, 2) in hundredths, den > 0.  A quotient halfway between
\* two hundredths goes to the even one
Round2(num, den) ==
    LET doubled == 200 * num + den
        q == doubled \div (2 * den)
    IN  IF doubled % (2 * den) = 0 /\ q % 2 = 1 THEN q - 1 ELSE q

\* the values of data['Duration (seconds)'] that mean() and max() look at:
\* every one that is not NaN
RECURSIVE DurationValues(_)
DurationValues(rows) ==
    IF rows = <<>> THEN <<>>
    ELSE LET rest == DurationValues(Tail(rows))
         IN  IF Head(rows).duration.kind = "nan" THEN rest
             ELSE <<Head(rows).duration.val>> \o rest

RECURSIVE Sum(_)
Sum(values) == IF values = <<>> THEN 0 ELSE Head(values) + Sum(Tail(values))

RECURSIVE Maximum(_)
Maximum(values) ==
    IF Len(values) = 1 THEN Head(values)
    ELSE LET m == Maximum(Tail(values))
         IN  IF Head(values) > m THEN Head(values) ELSE m

\* round(data['Duration (seconds)'].mean(), 2)
Average_Call_Duration(rows) ==
    LET values == DurationValues(rows)
    IN  IF values = <<>> THEN NaN
        ELSE Float2(Round2(Sum(values), Len(values)))

\* round(data['Duration (seconds)'].max(), 2)
Max_Call_Duration(rows) ==
    LET values == DurationValues(rows)
    IN  IF values = <<>> THEN NaN ELSE Float2(100 * Maximum(values))

Success_Rate_FullWithoutCalls(successful_calls, total_attempted_calls) ==
    IF total_attempted_calls > 0
    THEN Float2(Round2(100 * successful_calls, total_attempted_calls))
    ELSE Float2(10000)

\* round((successful_calls / total_attempted_calls * 100
\*        if total_attempted_calls > 0 else 0), 2)
Success_Rate(successful_calls, total_attempted_calls) ==
    IF total_attempted_calls > 0
    THEN Float2(Round2(100 * successful_calls, total_attempted_calls))
    ELSE Float2(0)

\* the dictionary stats
Stats(c, rows) ==
    "Total Attempted Calls (Duration > 0)" :> c.total_attempted_calls
    @@ "Successful Calls" :> c.successful_calls
    @@ "Failed Calls (With Duration)" :> c.failed_calls
    @@ "Warning Calls (With Duration)" :> c.warning_calls
    @@ "Info Calls (With Duration)" :> c.info_calls
    @@ "Average Call Duration (seconds)" :> Average_Call_Duration(rows)
    @@ "Max Call Duration (seconds)" :> Max_Call_Duration(rows)
    @@ "Success Rate (%)" :>
           Success_Rate(c.successful_calls, c.total_attempted_calls)

\* TeasmLogsV3.py: after the loop.  The statistics read the column
\* 'Duration (seconds)' of the input and raise KeyError without it
FinishV3 ==
    /\ pf_pc = "rows" /\ version = "V3"
    /\ row_no = Len(data.rows)
    /\ IF "Duration (seconds)" \notin data.columns
       THEN /\ outcome' = Failed(KeyError("Duration (seconds)"))
            /\ UNCHANGED <<stats, written>>
       ELSE /\ stats' = Stats(counters, data.rows)
            /\ written' = TRUE
            /\ outcome' = Succeeded
    /\ pf_pc' = "done"
    /\ UNCHANGED <<version, data, row_no, results, summaries, counters,
                   sip2Vars, segVars, stVars, exVars>>

PfInit == Sip2Idle /\ SegIdle /\ PfIdle /\ StIdle /\ ExIdle

PfNext ==
    ProcessFileV2 \/ ProcessFileV3 \/ RowV2 \/ RowV3 \/ FinishV2 \/ FinishV3

SpecProcess == PfInit /\ [][PfNext]_vars


----------------------------------------------------------------------------
(* What the claims about process_file speak of *)

KnownSubcodes == {560486, 560487, 560404, 560480, 560503}

\* explain_sip of the revision
ExplainBy(revision, code, subcode, phrase) ==
    IF revision = "V2" THEN V2_explain_sip(code, subcode, phrase)
    ELSE V3_explain_sip(code, subcode, phrase)

\* the part of a result that comes from the subcode
SubcodePart(revision, result) ==
    IF revision = "V2"
    THEN <<result[3]["subcode_description"], result[3]["cause"],
           result[3]["resolution"]>>
    ELSE <<result[3]["Microsoft_Subcode"], result[3]["Cause"],
           result[3]["Resolution"]>>

\* what an unrecognized subcode is explained by
Synthesized(revision, subcode) ==
    IF revision = "V2"
    THEN <<"Unrecognized network condition: " \o ToString(subcode), "Unknown",
           "Contact support for more information">>
    ELSE <<ToString(subcode) \o " - Unknown subcode",
           "No information available",
           "Contact support for more information">>

\* C18: the subcode description, cause and resolution of a result are those
\* of the same subcode explained with any other status code, the status
\* explanation is that of the same status code explained with any other
\* subcode, and a subcode that is not in the table has the synthesized
\* description, cause and resolution (TeasmLogsV2.py and TeasmLogsV3.py).
C18_SubcodeIndependentOfCode ==
    \A k \in 1..Len(explained) :
        LET call == explained[k]
            rev == call.revision
        IN  rev \in {"V2", "V3"} =>
            /\ \A code \in {0, 404} :
                  SubcodePart(rev, call.result) =
                      SubcodePart(rev, ExplainBy(rev, code,
                                                 call.microsoft_subcode,
                                                 call.sip_phrase))
            /\ \A subcode \in {0, 560404} :
                  call.result[1] =
                      ExplainBy(rev, call.final_sip_code, subcode,
                                call.sip_phrase)[1]
            /\ call.microsoft_subcode \notin KnownSubcodes
                  => SubcodePart(rev, call.result)
                         = Synthesized(rev, call.microsoft_subcode)

C18_Witness ==
    /\ Len(explained) = 1
    /\ explained[1].revision = "V3"
    /\ explained[1].final_sip_code = 486
    /\ explained[1].microsoft_subcode = 560404
    /\ explained[1].result[3]["Cause"] # "No information available"
    /\ explained[1].result[1] # "Unknown SIP code"

\* the required columns that the input lacks
MissingRequired ==
    {"Final SIP code", "Final Microsoft subcode", "Final SIP Phrase"}
        \ data.columns

RECURSIVE Listed(_)
Listed(columns) ==
    IF Len(columns) = 0 THEN ""
    ELSE IF Len(columns) = 1 THEN columns[1]
    ELSE columns[1] \o ", " \o Listed(Tail(columns))

\* the missing-fields messages that name every column of the set
MessagesNaming(missing) ==
    { "Missing required fields: "
          \o Listed(SelectSeq(<<"UPN", "Display Name", "Final SIP code",
                                "Final Microsoft subcode",
                                "Final SIP Phrase">>,
                              LAMBDA c : c \in missing \cup more)) :
        more \in SUBSET {"UPN", "Display Name"} }

\* C19 as stated: an input that lacks required columns is refused before any
\* row is processed, with a missing-fields message that names every missing
\* column; no row is classified and nothing is written.
C19_MissingColumnsAllNamed ==
    (pf_pc = "done" /\ data.exists /\ MissingRequired # {})
        => /\ outcome[1] = FALSE
           /\ outcome[2] \in MessagesNaming(MissingRequired)
           /\ row_no = 0
           /\ results = <<>>
           /\ ~written

\* a cell that int() refuses
Malformed(cell) ==
    \/ cell.kind = "nan"
    \/ /\ cell.kind = "str"
       /\ \E i \in 1..Len(cell.val) :
             cell.val[i] \notin
                 {"0", "1", "2", "3", "4", "5", "6", "7", "8", "9"}

WellFormedRows ==
    SelectSeq(data.rows,
              LAMBDA r : ~Malformed(r.code) /\ ~Malformed(r.subcode))

\* C20 as stated: a row with a malformed numeric field is skipped, the other
\* rows are processed and give their output, and the batch is not aborted.
C20_MalformedRowSkipped ==
    (/\ pf_pc = "done"
     /\ data.exists
     /\ AllColumns \subseteq data.columns
     /\ Len(WellFormedRows) > 0
     /\ Len(WellFormedRows) < Len(data.rows))
        => /\ outcome[1] = TRUE
           /\ Len(results) = Len(WellFormedRows)
           /\ written

\* C21 as stated: a table that has the three required columns and lacks only
\* optional ones is processed successfully by TeasmLogsV3.py: every row is
\* classified, the statistics are produced and the output is written.
C21_OptionalColumnsNotNeeded ==
    (/\ pf_pc = "done"
     /\ version = "V3"
     /\ data.exists
     /\ MissingRequired = {}
     /\ Len(WellFormedRows) = Len(data.rows))
        => /\ outcome[1] = TRUE
           /\ Len(results) = Len(data.rows)
           /\ stats # <<>>
           /\ written

\* the messages that report each of the three conditions, in either revision
NotFoundMessages ==
    { "Input file does not exist",
      Failed("[Errno 2] No such file or directory: '" \o input_path \o "'")[2] }

MissingFieldsMessages ==
    UNION { MessagesNaming(missing) :
              missing \in SUBSET {"Final SIP code", "Final Microsoft subcode",
                                  "Final SIP Phrase"} }
    \cup { Failed(KeyError(c))[2] :
             c \in {"Final SIP code", "Final Microsoft subcode",
                    "Final SIP Phrase"} }

MalformedMessages ==
    { Failed(IntOf(cell).error)[2] :
        cell \in { c \in UNION {{r.code, r.subcode} : r \in RowSet} :
                     Malformed(c) } }

MalformedRows ==
    SelectSeq(data.rows, LAMBDA r : Malformed(r.code) \/ Malformed(r.subcode))

\* C22 as stated: a finished call has returned a pair (success, message);
\* a missing source, missing required columns and a malformed numeric field
\* are each returned as a failure with a message of their own kind; success
\* is returned only after every row was processed and the output written.
C22_FailuresReportedDistinctly ==
    pf_pc = "done"
        => /\ Len(outcome) = 2
           /\ outcome[1] \in BOOLEAN
           /\ outcome[1] => (row_no = Len(data.rows) /\ written)
           /\ ~data.exists
                 => (~outcome[1] /\ outcome[2] \in NotFoundMessages)
           /\ (data.exists /\ MissingRequired # {})
                 => /\ ~outcome[1]
                    /\ outcome[2] \in
                          MissingFieldsMessages \cup MalformedMessages
           /\ (data.exists /\ data.columns = AllColumns
                           /\ MalformedRows # <<>>)
                 => (~outcome[1] /\ outcome[2] \in MalformedMessages)
           /\ NotFoundMessages \cap MissingFieldsMessages = {}
           /\ NotFoundMessages \cap MalformedMessages = {}
           /\ MissingFieldsMessages \cap MalformedMessages = {}

\* the rows with duration > 0
AttemptedRows == SelectSeq(data.rows, LAMBDA r : Positive(r.duration))

\* the call of TeasmLogsV3.py has ended and the table had what the
\* statistics read: every row was classified, and the duration column exists
Summarized ==
    /\ pf_pc = "done"
    /\ version = "V3"
    /\ data.exists
    /\ "Duration (seconds)" \in data.columns
    /\ row_no = Len(data.rows)

\* C23: when the table has no rows, or no row with duration > 0, the
\* statistics are produced (nothing is raised, so nothing divided by zero)
\* and the success rate is 0.
C23_NoAttemptedCallsRateZero ==
    (Summarized /\ AttemptedRows = <<>>)
        => /\ outcome = Succeeded
           /\ stats # <<>>
           /\ stats["Success Rate (%)"] = Float2(0)
           /\ stats["Total Attempted Calls (Duration > 0)"] = 0

C23_Witness ==
    /\ Summarized
    /\ AttemptedRows = <<>>
    /\ Len(data.rows) = 2
    /\ data.rows[1].duration = NaN
    /\ data.rows[2].duration = IntCell(0 - 5)
    /\ stats["Success Rate (%)"] = Float2(0)

\* the attempted rows whose status is Success
SuccessfulRows ==
    SelectSeq(AttemptedRows,
              LAMBDA r : determine_call_status(CellStr(r.code)) = SUCCESS)

\* C24 as stated: the success rate is successful / attempted x 100, with
\* attempted the rows of duration > 0 and successful those of them whose
\* status is Success.
C24_RateIsExactQuotient ==
    (Summarized /\ AttemptedRows # <<>>)
        => /\ stats["Success Rate (%)"].kind = "float"
           /\ stats["Success Rate (%)"].val * Len(AttemptedRows)
                 = 100 * 100 * Len(SuccessfulRows)

\* C24, amended: the success rate is successful / attempted x 100 rounded to
\* two decimals (it is within half a hundredth of the quotient), with
\* attempted the rows of duration > 0 and successful those of them whose
\* status is Success; rows of duration <= 0 or without duration count in
\* neither; an even split gives 50.0.
C24_RateIsRoundedQuotient ==
    (Summarized /\ AttemptedRows # <<>>)
        => LET rate == stats["Success Rate (%)"]
               gap == rate.val * Len(AttemptedRows)
                          - 100 * 100 * Len(SuccessfulRows)
           IN  /\ rate.kind = "float"
               /\ 2 * gap <= Len(AttemptedRows)
               /\ 2 * gap >= 0 - Len(AttemptedRows)
               /\ 2 * Len(SuccessfulRows) = Len(AttemptedRows)
                     => rate = Float2(50 * 100)

C24_Witness ==
    /\ Summarized
    /\ Len(data.rows) = 3
    /\ Len(AttemptedRows) = 2
    /\ Len(SuccessfulRows) = 1
    /\ stats["Success Rate (%)"] = Float2(50 * 100)

\* the rows whose duration is a valid non-negative number
ValidDurationRows ==
    SelectSeq(data.rows,
              LAMBDA r : r.duration.kind = "int" /\ r.duration.val >= 0)

\* C25 as stated: the average and the maximum duration are those of the rows
\* whose duration is a valid non-negative number; rows with a negative or an
\* absent duration change neither.
C25_DurationsOverValidOnly ==
    (Summarized /\ outcome = Succeeded)
        => /\ stats["Average Call Duration (seconds)"]
                 = Average_Call_Duration(ValidDurationRows)
           /\ stats["Max Call Duration (seconds)"]
                 = Max_Call_Duration(ValidDurationRows)

\* row.get('Duration (seconds)', 0) of the i-th row
DurationOf(i) ==
    IF "Duration (seconds)" \in data.columns THEN data.rows[i].duration
    ELSE IntCell(0)

CounterNames ==
    {"total_attempted_calls", "successful_calls", "failed_calls",
     "warning_calls", "info_calls"}

CountersAddUp ==
    /\ counters.successful_calls + counters.failed_calls
           + counters.warning_calls + counters.info_calls
         = counters.total_attempted_calls
    /\ \A name \in CounterNames : counters[name] >= 0
    /\ stats # <<>>
          => /\ stats["Success Rate (%)"].val >= 0
             /\ stats["Success Rate (%)"].val <= 100 * 100

CountersStep ==
    /\ \A name \in CounterNames : counters'[name] >= counters[name]
    /\ (row_no' = row_no + 1 /\ ~Positive(DurationOf(row_no')))
          => counters' = counters

\* C28: after any prefix of the rows the four status counters add up to
\* total_attempted_calls and none is negative; no step lowers a counter; a
\* row whose duration is not > 0 changes none of them; the success rate in
\* the statistics is between 0 and 100.
C28_CountersConsistent == [](CountersAddUp) /\ [][CountersStep]_vars

C28_Witness ==
    /\ version = "V3"
    /\ pf_pc = "rows"
    /\ row_no = 3
    /\ ~Positive(DurationOf(2))
    /\ counters.total_attempted_calls = 2
    /\ counters.failed_calls = 1
    /\ counters.successful_calls = 1

\* C29: the error category of a TeasmLogsV2.py classification is the first
\* category, in the order the table declares them, whose list has the code;
\* 502, listed under Routing and Network, is Routing; a code in no list,
\* which every 1xx, 2xx and 3xx code is, is Uncategorized.
C29_FirstCategoryInOrder ==
    \A n \in 1..Len(explained) :
        explained[n].revision = "V2" =>
            LET code == explained[n].final_sip_code
                category == explained[n].result[3]["error_category"]
                Lists(i) == ToString(code) \in V2_error_categories[i][2]
            IN  /\ \/ /\ category = "Uncategorized"
                      /\ \A i \in 1..Len(V2_error_categories) : ~Lists(i)
                   \/ \E i \in 1..Len(V2_error_categories) :
                         /\ category = V2_error_categories[i][1]
                         /\ Lists(i)
                         /\ \A k \in 1..(i - 1) : ~Lists(k)
                /\ code = 502 => category = "Routing"
                /\ (code >= 100 /\ code <= 399) => category = "Uncategorized"

C29_Witness ==
    /\ Len(explained) = 1
    /\ explained[1].revision = "V2"
    /\ explained[1].final_sip_code = 502
    /\ explained[1].result[3]["error_category"] = "Routing"

\* the explanation, cause and resolution of a classification
Texts(call) ==
    IF call.revision = "V2"
    THEN <<call.result[1], call.result[3]["cause"],
           call.result[3]["resolution"]>>
    ELSE <<call.result[1], call.result[3]["Cause"],
           call.result[3]["Resolution"]>>

\* C26: two classifications by the same analyzer with the same code, subcode
\* and phrase return the same result, however many others lie between them;
\* with the same code and subcode they return the same explanation, cause
\* and resolution; and the tables are at every moment the ones loaded at
\* construction.
C26_ClassificationPure ==
    /\ tables = LoadedTables
    /\ \A i, j \in 1..Len(explained) :
          (/\ i < j
           /\ explained[i].revision = explained[j].revision
           /\ explained[i].final_sip_code = explained[j].final_sip_code
           /\ explained[i].microsoft_subcode = explained[j].microsoft_subcode)
              => /\ Texts(explained[i]) = Texts(explained[j])
                 /\ explained[i].sip_phrase = explained[j].sip_phrase
                       => explained[i].result = explained[j].result

C26_Witness ==
    /\ Len(explained) = 3
    /\ explained[1].revision = "V3" /\ explained[3].revision = "V3"
    /\ explained[1].final_sip_code = 999 /\ explained[3].final_sip_code = 999
    /\ explained[1].microsoft_subcode = 560404
    /\ explained[3].microsoft_subcode = 560404
    /\ explained[2].final_sip_code = 404
    /\ explained[2].microsoft_subcode = 1
    /\ explained[1].result = explained[3].result

----------------------------------------------------------------------------
(* Further properties of parse_log_file of src/SIP2.py *)

C27_Held ==
    /\ DOMAIN current_session \subseteq {"caller", "callee"}
    /\ \A k \in 1..Len(log_entries) : log_entries[k]["Duration"] = ""

\* the line just read is the call-end line of the entry just appended
C27_Step ==
    Len(log_entries') = Len(log_entries) + 1
        => LET file == files'[Len(files')]
               line == file[Len(file)]
           IN  /\ DetectedEnd(line)
               /\ log_entries'[Len(log_entries')]["Termination Reason"] =
                      (IF ReasonOf(line) # <<>> THEN ReasonOf(line)
                       ELSE <<"Normal">>)

\* C27: between any two lines current_session holds at most a caller and a
\* callee, never a termination_reason or a duration; every entry has an
\* empty Duration, and its Termination Reason is what follows 'Call End
\* Reason: ' on its own call-end line, or "Normal" when that line has none.
C27_SessionHoldsOnlyParties == [](C27_Held) /\ [][C27_Step]_vars

\* an entry with the reason of its line, then a caller picked up after it
C27_Witness ==
    /\ Len(log_entries) = 1
    /\ log_entries[1]["Termination Reason"] = <<"Busy", "[SID=S2]">>
    /\ log_entries[1]["Duration"] = ""
    /\ DOMAIN current_session = {"caller"}

\* the callers and callees that the lines of a file give
PartiesOf(file) ==
    { FromOf(file[i]) : i \in 1..Len(file) }
        \cup { ToOf(file[i]) : i \in 1..Len(file) } \cup {""}

C30_Step ==
    /\ Len(log_entries') >= Len(log_entries)
    /\ SubSeq(log_entries', 1, Len(log_entries)) = log_entries
    /\ (pc = "idle" /\ pc' = "reading") => current_session' = EmptySession
    /\ Len(log_entries') > Len(log_entries)
          => LET entry == log_entries'[Len(log_entries')]
                 file == files'[Len(files')]
             IN  /\ entry["Caller"] \in PartiesOf(file)
                 /\ entry["Callee"] \in PartiesOf(file)

\* C30: over successive calls of parse_log_file on one analyzer, every step
\* keeps the entries there are, in order and unmodified, as a prefix of
\* log_entries; each call starts with an empty current_session; the Caller
\* and Callee of an entry come from lines of the log being read, never from
\* an earlier one.
C30_EntriesKeptSessionFresh == [][C30_Step]_vars

\* a caller is left pending by the first log; the entry of the second log
\* does not have it
C30_Witness ==
    /\ Len(files) = 2
    /\ Len(files[1]) = 1
    /\ FromOf(files[1][1]) = "a@x"
    /\ ~DetectedEnd(files[1][1])
    /\ Len(log_entries) = 1
    /\ log_entries[1]["Caller"] = ""

====
